---- MODULE Spec2Model ----
(***************************************************************************)
(* Model of the multimodal training pipeline of CloneKing                  *)
(* (src/src/core/training_pipeline.py): one train_persona run for one      *)
(* persona on the asyncio worker, with cancel_training called from the     *)
(* GUI thread at any point.                                                *)
(*                                                                         *)
(* Abstractions.  A media file is represented by what the analyzer makes  *)
(* of it: "missing" (os.path.exists is false), "error" (the analyzer       *)
(* returns {"error": ...}), "raises" (an exception escapes the per-file    *)
(* try block's body), or its overall_score.  A path is the file's index   *)
(* in its input list.  progress_percentage is kept as the integer part of  *)
(* (current_step / total_steps) * 100; on the values that occur            *)
(* (0, 25, 33.3, 50, 66.7, 75, 95, 100) this preserves order and           *)
(* distinctness.  Timestamps are left out of the artifacts.  Clip and      *)
(* voice-segment extraction (no effect on job state or on the feature      *)
(* artifacts) is not part of Spec.                                         *)
(*                                                                         *)
(* Further specifications over the same variables take one part of the     *)
(* program on its own: SpecScore the two suitability scorers, SpecAudioStage*)
(* the per-file loop of _process_audio_files with the audio scorer,        *)
(* SpecAggregate the two feature aggregators, SpecSegments                 *)
(* extract_voice_segments, SpecTwo two train_persona calls on the          *)
(* application's event loop, SpecVideoStage one call of                    *)
(* _process_video_files, SpecClips the clip ranges of                      *)
(* _identify_training_segments, SpecSame two overlapping train_persona     *)
(* calls for one persona id, SpecAnalyze one call of analyze_audio or      *)
(* analyze_video.                                                          *)
(***************************************************************************)
EXTENDS Integers, Sequences, FiniteSets, TLC

\* ------------------------------------------------------------------ bounds
MaxFiles == 2      \* files in training_data, over all modalities

\* ------------------------------------------------------- program constants
AudioAcceptanceBar == 40
VideoAcceptanceBar == 40
SynthesisProgress == 95
CompletedProgress == 100

PersonaId == "p1"

\* overall_score values a successfully analyzed file may carry
Scores == {39, 40}

\* what becomes of an audio or video file in the per-file loop
MediaOutcomes ==
    {[kind |-> k, overall_score |-> 0] : k \in {"missing", "error", "raises"}}
    \cup {[kind |-> "record", overall_score |-> n] : n \in Scores}
TextOutcomes == {"missing", "blank", "raises", "content"}
ImageOutcomes == {"missing", "raises", "image"}

Modalities == <<"audio", "video", "text", "images">>

NoFile == [kind |-> "absent"]

\* files under <root>/<personaId>/
FileNames ==
    {"audio/audio_analysis.json", "advanced_voice_features.json",
     "video/video_analysis.json", "advanced_visual_features.json",
     "text/processed", "personality_features.json",
     "images/processed",
     "voice_features.json", "visual_features.json",
     "persona_model.json"}

EmptyDict == [kind |-> "dict", keys |-> {}]

VARIABLES
    training_data,               \* argument of train_persona
    has_callback,                \* progress_callback is not None
    VIDEO_PROCESSING_AVAILABLE,  \* module flag set by the guarded import
    np_imported,                 \* the guarded import got as far as numpy
    pc,                          \* position of the train_persona coroutine
    active_trainings,            \* persona id -> TrainingProgress
    current_step,                \* local of train_persona
    total_steps,                 \* local of train_persona
    exc,                         \* message of the exception being handled
    result,                      \* outcome of train_persona
    disk,                        \* file name -> content, or NoFile
    callbacks,                   \* history: what progress_callback received
    started,                     \* history: steps begun, in order
    finished,                    \* history: steps whose processing returned
    cancel_result,               \* what the last cancel_training returned
    cancel_mark,                 \* history: the first cancel of the running job
    call,                        \* analyzer-level operation applied, with its argument
    ret,                         \* what that operation returned
    requests,                    \* persona id -> arguments of its train_persona call
    sources,                     \* source file -> what analyze_audio makes of it
    jobs,                        \* persona id -> position and locals of its coroutine
    loop,                        \* the coroutine the event loop is running, or "idle"
    written                      \* history: the files written, and by which job

vars == <<training_data, has_callback, VIDEO_PROCESSING_AVAILABLE, np_imported,
          pc, active_trainings, current_step, total_steps, exc, result, disk,
          callbacks, started, finished, cancel_result, cancel_mark, call, ret,
          requests, sources, jobs, loop, written>>

\* the state of a train_persona run
pipeline == <<pc, active_trainings, current_step, total_steps, exc, result, disk,
              callbacks, started, finished, cancel_result, cancel_mark>>

\* an analyzer operation applied on its own
analyzer == <<call, ret>>

\* several train_persona calls submitted to the application's event loop
fleet == <<requests, sources, jobs, loop, written>>

inputs == <<training_data, has_callback, VIDEO_PROCESSING_AVAILABLE, np_imported>>

\* --------------------------------------------------------------- helpers
Registered == PersonaId \in DOMAIN active_trainings

Job == active_trainings[PersonaId]

Status == IF Registered THEN Job.status ELSE "none"

Pct(cs, ts) == (cs * 100) \div ts

Details(text, n, msg) == [text |-> text, n |-> n, msg |-> msg]

NoCancel == [made |-> FALSE, pc |-> <<"none">>, started |-> 0, finished |-> 0]

File(data) == [kind |-> "file", data |-> data]

Exists(f) == disk[f].kind = "file"

\* the analyzer returned a record without "error" (it carries a score)
Analysed(outcome) == outcome.kind = "record"

\* the per-file loop as it would be if an exception on one file left the loop:
\* the files after the raising one are not analysed
RECURSIVE AnalysesStopAtRaise(_, _)
AnalysesStopAtRaise(files, i) ==
    IF i > Len(files) THEN <<>>
    ELSE IF files[i].kind = "missing" THEN AnalysesStopAtRaise(files, i + 1)
    ELSE IF files[i].kind = "raises" THEN <<>>
    ELSE IF Analysed(files[i])
         THEN <<[path |-> i, overall_score |-> files[i].overall_score]>>
              \o AnalysesStopAtRaise(files, i + 1)
         ELSE AnalysesStopAtRaise(files, i + 1)

\* indices i..Len(files), in input order, of the files the per-file loop
\* appends to its analyses list: the file exists, the analyzer neither
\* returned an error record nor raised
RECURSIVE Analyses(_, _)
Analyses(files, i) ==
    IF i > Len(files) THEN <<>>
    ELSE IF files[i].kind = "missing" THEN Analyses(files, i + 1)   \* continue
    ELSE IF files[i].kind = "raises" THEN Analyses(files, i + 1)    \* except: continue
    ELSE IF Analysed(files[i])
         THEN <<[path |-> i, overall_score |-> files[i].overall_score]>>
              \o Analyses(files, i + 1)
         ELSE Analyses(files, i + 1)                             \* "error" in result

\* the suitable list as it would be if every analysed file were kept
RECURSIVE SuitableOfAll(_, _)
SuitableOfAll(records, bar) ==
    IF records = <<>> THEN <<>>
    ELSE <<Head(records).path>> \o SuitableOfAll(Tail(records), bar)

\* paths of the analysed records whose overall_score reaches the bar
RECURSIVE SuitableOf(_, _)
SuitableOf(records, bar) ==
    IF records = <<>> THEN <<>>
    ELSE IF Head(records).overall_score >= bar
         THEN <<Head(records).path>> \o SuitableOf(Tail(records), bar)
         ELSE SuitableOf(Tail(records), bar)

\* training_data.get(m) is truthy
NonEmpty(m) == training_data[m] # <<>>

\* the stage of modality m is entered by train_persona
StageEnabled(m) ==
    /\ NonEmpty(m)
    /\ (m = "video" => VIDEO_PROCESSING_AVAILABLE)

\* len([k for k, v in training_data.items() if v])
TotalSteps == Cardinality({i \in 1..Len(Modalities) : NonEmpty(Modalities[i])})

\* where train_persona goes after the block of modality number i (0: the start)
RECURSIVE NextPc(_)
NextPc(i) ==
    IF i >= Len(Modalities) THEN <<"begin", "synthesis">>
    ELSE IF StageEnabled(Modalities[i + 1]) THEN <<"begin", Modalities[i + 1]>>
         ELSE NextPc(i + 1)

\* what the callback sees of the TrainingProgress object it is handed
Snapshot(job) ==
    [status |-> job.status, progress_percentage |-> job.progress_percentage,
     current_step |-> job.current_step, details |-> job.details]

\* `if progress_callback: progress_callback(progress)`, continuing at `next`
\* or, when the callback raises, in the except block of train_persona
Notify(job, next) ==
    IF has_callback
    THEN /\ callbacks' = Append(callbacks, Snapshot(job))
         /\ \/ pc' = next /\ exc' = exc
            \/ pc' = <<"except">> /\ exc' = "callback raised"
    ELSE /\ callbacks' = callbacks
         /\ exc' = exc
         /\ pc' = next

\* ------------------------------------------------------------------ Init
\* nothing has run yet
PipelineIdle ==
    /\ pc = <<"start">>
    /\ active_trainings = <<>>
    /\ current_step = 0
    /\ total_steps = 0
    /\ exc = ""
    /\ result = "pending"
    /\ disk = [f \in FileNames |-> NoFile]
    /\ callbacks = <<>>
    /\ started = <<>>
    /\ finished = <<>>
    /\ cancel_result = "none"
    /\ cancel_mark = NoCancel

\* no analyzer operation is applied on its own
AnalyzerIdle ==
    /\ call = [op |-> "none"]
    /\ ret = [op |-> "none"]

\* no second job is submitted
FleetIdle ==
    /\ requests = <<>>
    /\ sources = <<>>
    /\ jobs = <<>>
    /\ loop = "idle"
    /\ written = {}

Init ==
    /\ \E la \in 0..MaxFiles : \E lv \in 0..(MaxFiles - la) :
       \E lt \in 0..(MaxFiles - la - lv) : \E lg \in 0..(MaxFiles - la - lv - lt) :
       \E a \in [1..la -> MediaOutcomes], v \in [1..lv -> MediaOutcomes],
          t \in [1..lt -> TextOutcomes], g \in [1..lg -> ImageOutcomes] :
            training_data = [audio |-> a, video |-> v, text |-> t, images |-> g]
    /\ has_callback \in BOOLEAN
    /\ VIDEO_PROCESSING_AVAILABLE \in BOOLEAN
    /\ np_imported \in BOOLEAN
    /\ (VIDEO_PROCESSING_AVAILABLE => np_imported)
    /\ PipelineIdle
    /\ AnalyzerIdle
    /\ FleetIdle

\* ------------------------------------------------------- train_persona
\* lines 59-81: create and register the TrainingProgress, first callback
Start ==
    /\ pc = <<"start">>
    /\ LET progress == [persona_id |-> PersonaId,
                        current_step |-> <<"Initializing", 0, 0>>,
                        progress_percentage |-> 0,
                        status |-> "running",
                        details |-> Details("Preparing training pipeline", 0, "")]
       IN /\ active_trainings' = (PersonaId :> progress) @@ active_trainings
          /\ Notify(progress, NextPc(0))
    /\ total_steps' = IF pc' = <<"except">> THEN total_steps ELSE TotalSteps
    /\ current_step' = 0
    /\ UNCHANGED <<inputs, analyzer, fleet, result, disk, started, finished, cancel_result, cancel_mark>>

StageLabel(m) ==
    CASE m = "audio" -> "Processing audio files"
      [] m = "video" -> "Processing video files"
      [] m = "text" -> "Processing text files"
      [] m = "images" -> "Processing image files"

\* the block that opens the stage of modality m: count the step, publish
\* current_step / progress_percentage / details, call the callback
BeginStage(m) ==
    /\ pc = <<"begin", m>>
    /\ current_step' = current_step + 1
    /\ LET progress == [Job EXCEPT
               !.current_step = <<StageLabel(m), current_step + 1, total_steps>>,
               !.progress_percentage = Pct(current_step + 1, total_steps),
               !.details = Details(StageLabel(m), Len(training_data[m]), "")]
       IN /\ active_trainings' = [active_trainings EXCEPT ![PersonaId] = progress]
          /\ Notify(progress, <<"run", m>>)
    /\ started' = Append(started, m)
    /\ UNCHANGED <<inputs, analyzer, fleet, total_steps, result, disk, finished, cancel_result, cancel_mark>>

BeginAudio == BeginStage("audio")

BeginVideo == BeginStage("video")

BeginText == BeginStage("text")

BeginImages == BeginStage("images")

StageMsg(m) == "stage failed: " \o m

\* a stage-level exception (output_dir.mkdir raising for a modality stage, the
\* open of persona_model.json raising for synthesis) leaves the step before it
\* has written anything; the step logs and re-raises
StageFault(m) ==
    /\ pc = <<"run", m>>
    /\ pc' = <<"except">>
    /\ exc' = StageMsg(m)
    /\ UNCHANGED <<inputs, analyzer, fleet, active_trainings, current_step, total_steps, result,
                   disk, callbacks, started, finished, cancel_result, cancel_mark>>

\* paths (indices from i on, in input order) of the files with this outcome
RECURSIVE PathsWith(_, _, _)
PathsWith(files, i, outcome) ==
    IF i > Len(files) THEN <<>>
    ELSE IF files[i] = outcome THEN <<i>> \o PathsWith(files, i + 1, outcome)
         ELSE PathsWith(files, i + 1, outcome)

\* _extract_advanced_voice_features / _extract_advanced_visual_features:
\* nothing for an empty list; otherwise the summary is written to `file`,
\* unless numpy was never bound in this module (the NameError is logged and
\* swallowed by the function's own except)
ExtractAdvancedFeatures(d, file, analyses) ==
    IF analyses = <<>> THEN d
    ELSE IF ~np_imported THEN d
    ELSE [d EXCEPT ![file] = File([total_files |-> Len(analyses),
                                   records |-> analyses])]

\* _process_audio_files, lines 180-274
RunAudio ==
    /\ pc = <<"run", "audio">>
    /\ LET audio_analyses == Analyses(training_data.audio, 1)
           suitable_files == SuitableOf(audio_analyses, AudioAcceptanceBar)
           saved == [disk EXCEPT !["audio/audio_analysis.json"] =
                        File([analyses |-> audio_analyses,
                              suitable_files |-> suitable_files,
                              total_files |-> Len(training_data.audio)])]
       IN disk' = ExtractAdvancedFeatures(saved, "advanced_voice_features.json",
                                          audio_analyses)
    /\ pc' = NextPc(1)
    /\ finished' = Append(finished, "audio")
    /\ UNCHANGED <<inputs, analyzer, fleet, active_trainings, current_step, total_steps, exc,
                   result, callbacks, started, cancel_result, cancel_mark>>

\* _process_video_files, lines 280-374
RunVideo ==
    /\ pc = <<"run", "video">>
    /\ LET video_analyses == Analyses(training_data.video, 1)
           saved == [disk EXCEPT !["video/video_analysis.json"] =
                        File([analyses |-> video_analyses,
                              total_files |-> Len(training_data.video)])]
       IN disk' = ExtractAdvancedFeatures(saved, "advanced_visual_features.json",
                                          video_analyses)
    /\ pc' = NextPc(2)
    /\ finished' = Append(finished, "video")
    /\ UNCHANGED <<inputs, analyzer, fleet, active_trainings, current_step, total_steps, exc,
                   result, callbacks, started, cancel_result, cancel_mark>>

\* _process_text_files, lines 380-414, with _extract_personality_features
RunText ==
    /\ pc = <<"run", "text">>
    /\ LET all_text_content == PathsWith(training_data.text, 1, "content")
       IN disk' = IF all_text_content = <<>> THEN disk
                  ELSE [disk EXCEPT
                          !["text/processed"] = File(all_text_content),
                          !["personality_features.json"] =
                              File([texts |-> all_text_content])]
    /\ pc' = NextPc(3)
    /\ finished' = Append(finished, "text")
    /\ UNCHANGED <<inputs, analyzer, fleet, active_trainings, current_step, total_steps, exc,
                   result, callbacks, started, cancel_result, cancel_mark>>

\* _process_image_files, lines 420-451
RunImages ==
    /\ pc = <<"run", "images">>
    /\ LET processed == PathsWith(training_data.images, 1, "image")
       IN disk' = IF processed = <<>> THEN disk
                  ELSE [disk EXCEPT !["images/processed"] = File(processed)]
    /\ pc' = NextPc(4)
    /\ finished' = Append(finished, "images")
    /\ UNCHANGED <<inputs, analyzer, fleet, active_trainings, current_step, total_steps, exc,
                   result, callbacks, started, cancel_result, cancel_mark>>

\* lines 147-153
BeginSynthesis ==
    /\ pc = <<"begin", "synthesis">>
    /\ LET progress == [Job EXCEPT
               !.current_step = <<"Synthesizing persona model", 0, 0>>,
               !.progress_percentage = SynthesisProgress,
               !.details = Details("Creating unified persona model", 0, "")]
       IN /\ active_trainings' = [active_trainings EXCEPT ![PersonaId] = progress]
          /\ Notify(progress, <<"run", "synthesis">>)
    /\ started' = Append(started, "synthesis")
    /\ UNCHANGED <<inputs, analyzer, fleet, current_step, total_steps, result, disk, finished,
                   cancel_result, cancel_mark>>

\* the files _synthesize_persona_model looks for, per section (lines 705-709)
FeaturesFiles ==
    [voice_model |-> "voice_features.json",
     visual_model |-> "visual_features.json",
     personality_model |-> "personality_features.json"]

\* the dict _synthesize_persona_model dumps (lines 696-714)
ModelData ==
    [persona_id |-> PersonaId,
     voice_model |-> IF Exists(FeaturesFiles.voice_model)
                     THEN disk[FeaturesFiles.voice_model].data ELSE EmptyDict,
     visual_model |-> IF Exists(FeaturesFiles.visual_model)
                      THEN disk[FeaturesFiles.visual_model].data ELSE EmptyDict,
     personality_model |-> IF Exists(FeaturesFiles.personality_model)
                           THEN disk[FeaturesFiles.personality_model].data
                           ELSE EmptyDict]

\* _synthesize_persona_model, lines 691-721
RunSynthesis ==
    /\ pc = <<"run", "synthesis">>
    /\ disk' = [disk EXCEPT !["persona_model.json"] = File(ModelData)]
    /\ pc' = <<"complete">>
    /\ finished' = Append(finished, "synthesis")
    /\ UNCHANGED <<inputs, analyzer, fleet, active_trainings, current_step, total_steps, exc,
                   result, callbacks, started, cancel_result, cancel_mark>>

\* a stage raises
StageFailure == \E m \in {"audio", "video", "text", "images", "synthesis"} : StageFault(m)

\* lines 157-161
Complete ==
    /\ pc = <<"complete">>
    /\ active_trainings' = [active_trainings EXCEPT ![PersonaId] =
           [Job EXCEPT !.current_step = <<"Training completed", 0, 0>>,
                       !.progress_percentage = CompletedProgress,
                       !.status = "completed",
                       !.details = Details("Persona training successful", 0, "")]]
    /\ pc' = <<"complete_notify">>
    /\ UNCHANGED <<inputs, analyzer, fleet, current_step, total_steps, exc, result, disk, callbacks,
                   started, finished, cancel_result, cancel_mark>>

\* lines 163-167
CompleteNotify ==
    /\ pc = <<"complete_notify">>
    /\ Notify(Job, <<"done">>)
    /\ result' = IF pc' = <<"done">> THEN "true" ELSE result
    /\ UNCHANGED <<inputs, analyzer, fleet, active_trainings, current_step, total_steps, disk,
                   started, finished, cancel_result, cancel_mark>>

\* lines 169-174
Except ==
    /\ pc = <<"except">>
    /\ active_trainings' =
           IF Registered
           THEN [active_trainings EXCEPT ![PersonaId] =
                    [Job EXCEPT !.status = "failed",
                                !.details = Details("Training failed: ", 0, exc)]]
           ELSE active_trainings
    /\ pc' = <<"except_notify">>
    /\ UNCHANGED <<inputs, analyzer, fleet, current_step, total_steps, exc, result, disk, callbacks,
                   started, finished, cancel_result, cancel_mark>>

\* lines 175-178; an exception of the callback leaves train_persona
ExceptNotify ==
    /\ pc = <<"except_notify">>
    /\ pc' = <<"done">>
    /\ IF has_callback /\ Registered
       THEN /\ callbacks' = Append(callbacks, Snapshot(Job))
            /\ result' \in {"false", "raised"}
       ELSE /\ callbacks' = callbacks
            /\ result' = "false"
    /\ UNCHANGED <<inputs, analyzer, fleet, active_trainings, current_step, total_steps, exc, disk,
                   started, finished, cancel_result, cancel_mark>>

\* ------------------------------------------------------ cancel_training
\* lines 731-737, called from another thread
CancelTraining ==
    /\ IF Registered
       THEN /\ active_trainings' = [active_trainings EXCEPT ![PersonaId] =
                                       [Job EXCEPT !.status = "cancelled"]]
            /\ cancel_result' = "true"
            /\ cancel_mark' =
                   IF ~cancel_mark.made /\ Status = "running"
                   THEN [made |-> TRUE, pc |-> pc, started |-> Len(started),
                         finished |-> Len(finished)]
                   ELSE cancel_mark
       ELSE /\ active_trainings' = active_trainings
            /\ cancel_result' = "false"
            /\ cancel_mark' = cancel_mark
    /\ UNCHANGED <<inputs, analyzer, fleet, pc, current_step, total_steps, exc, result, disk,
                   callbacks, started, finished>>

\* Optional[TrainingProgress]: the None of a missing entry
None == [persona_id |-> "None"]

\* get_training_progress, lines 727-729: active_trainings.get(persona_id)
GetTrainingProgress(persona_id) ==
    IF persona_id \in DOMAIN active_trainings THEN active_trainings[persona_id]
    ELSE None

Next ==
    \/ Start
    \/ BeginAudio
    \/ RunAudio
    \/ BeginVideo
    \/ RunVideo
    \/ BeginText
    \/ RunText
    \/ BeginImages
    \/ RunImages
    \/ BeginSynthesis
    \/ RunSynthesis
    \/ StageFailure
    \/ Complete
    \/ CompleteNotify
    \/ Except
    \/ ExceptNotify
    \/ CancelTraining

Spec == Init /\ [][Next]_vars

TypeOK ==
    /\ result \in {"pending", "true", "false", "raised"}
    /\ Status \in {"none", "running", "completed", "failed", "cancelled"}

\* ------------------------------------------------ suitability scorers
\* Units.  Durations are whole seconds, SNR, dynamic range and HNR whole dB,
\* frequency_balance, mean_energy, face_detection_rate and
\* voice_activity_ratio are in hundredths, clipping_ratio in ten-thousandths,
\* average_movement in ten-thousandths.  The four quality components are
\* kept in 1/6000 and overall_quality_score as their sum (1/24000), so that
\* every comparison the code makes is made exactly.  overall_score is the
\* integer part of (score / max_score) * 100: the thresholds it is compared
\* with (80, 60, 40) are integers, so no comparison changes.

\* the run of inputs no pipeline run uses
NoInputs ==
    /\ training_data = [audio |-> <<>>, video |-> <<>>, text |-> <<>>, images |-> <<>>]
    /\ has_callback = FALSE
    /\ VIDEO_PROCESSING_AVAILABLE = FALSE
    /\ np_imported = FALSE

Min(a, b) == IF a < b THEN a ELSE b
Max(a, b) == IF a > b THEN a ELSE b

AudioDurations == {3, 20, 45}
SnrValues == {5, 15, 25}
DynamicRanges == {0, 20, 40}
FrequencyBalances == {0, 50, 100}
ClippingRatios == {0, 50, 200}
HnrValues == {2, 10, 20}

NoVoiceQuality ==
    [has |-> FALSE, snr_db |-> 0, clipping_ratio |-> 0, overall_quality_score |-> 0]

\* the quality record as it would be if the clipping component grew with
\* the clipping ratio instead of falling from 1
AssessVoiceQualityClippingAsScore(snr, dynamic_range, frequency_balance, clipping_ratio) ==
    LET snr_score == Min(6000, Max(0, (snr - 10) * 200))
        dynamic_range_score == Min(6000, Max(0, dynamic_range * 150))
        frequency_balance_score == frequency_balance * 60
        clipping_penalty == Min(6000, clipping_ratio * 6)
    IN [has |-> TRUE,
        snr_db |-> snr,
        clipping_ratio |-> clipping_ratio,
        overall_quality_score |-> snr_score + dynamic_range_score
                                  + frequency_balance_score + clipping_penalty]

\* audio_analyzer.py _assess_voice_quality, lines 622-641
AssessVoiceQuality(snr, dynamic_range, frequency_balance, clipping_ratio) ==
    LET snr_score == Min(6000, Max(0, (snr - 10) * 200))
        dynamic_range_score == Min(6000, Max(0, dynamic_range * 150))
        frequency_balance_score == frequency_balance * 60
        clipping_penalty == Max(0, 6000 - clipping_ratio * 6)
    IN [has |-> TRUE,
        snr_db |-> snr,
        clipping_ratio |-> clipping_ratio,
        overall_quality_score |-> snr_score + dynamic_range_score
                                  + frequency_balance_score + clipping_penalty]

\* the analysis_results analyze_audio hands to its scorer: each group is
\* either populated or an {"error": ...} value (has = FALSE)
AudioRecords ==
    {[op |-> "audio",
      basic_info |-> [has |-> d > 0, duration |-> d],
      voice_quality |-> q,
      voice_characteristics |-> [has |-> h > 0, harmonics_to_noise_ratio |-> h]] :
        d \in AudioDurations \cup {0},
        q \in {NoVoiceQuality} \cup
              {AssessVoiceQuality(s4[1], s4[2], s4[3], s4[4]) :
                   s4 \in SnrValues \X DynamicRanges \X FrequencyBalances \X ClippingRatios},
        h \in HnrValues \cup {0}}

NoCriterion == [counted |-> FALSE, signal |-> FALSE, max |-> 0, points |-> 0, issues |-> {}]

\* one criterion of a scorer: counted = the test that adds max to max_score,
\* signal = there is a value to bucket, points = what is added to score
Criterion(max, points, issues) ==
    [counted |-> TRUE, signal |-> TRUE, max |-> max, points |-> points, issues |-> issues]

\* audio_analyzer.py _assess_training_suitability, lines 673-750
AudioCriteria(r) ==
    LET duration == r.basic_info.duration
        quality_score == r.voice_quality.overall_quality_score
        snr == r.voice_quality.snr_db
        clipping == r.voice_quality.clipping_ratio
        hnr == r.voice_characteristics.harmonics_to_noise_ratio
    IN << IF ~r.basic_info.has THEN NoCriterion
          ELSE IF duration < 5
               THEN Criterion(20, 5, {"Audio too short (minimum 5 seconds)"})
          ELSE IF duration < 30 THEN Criterion(20, 15, {})
          ELSE Criterion(20, 20, {}),
          IF ~r.voice_quality.has THEN NoCriterion
          ELSE IF quality_score < 7200
               THEN Criterion(25, 5, {"Poor audio quality - consider re-recording"})
          ELSE IF quality_score < 14400 THEN Criterion(25, 15, {})
          ELSE Criterion(25, 25, {}),
          IF ~r.voice_quality.has THEN NoCriterion
          ELSE IF snr < 10
               THEN Criterion(20, 5, {"High background noise - record in quiet environment"})
          ELSE IF snr < 20 THEN Criterion(20, 15, {})
          ELSE Criterion(20, 20, {}),
          IF ~r.voice_quality.has THEN NoCriterion
          ELSE IF clipping > 100
               THEN Criterion(15, 5, {"Audio clipping detected - reduce recording level"})
          ELSE IF clipping > 10 THEN Criterion(15, 10, {})
          ELSE Criterion(15, 15, {}),
          IF ~r.voice_characteristics.has THEN NoCriterion
          ELSE IF hnr < 5
               THEN Criterion(20, 5, {"Voice quality issues detected"})
          ELSE IF hnr < 15 THEN Criterion(20, 15, {})
          ELSE Criterion(20, 20, {}) >>

RECURSIVE SumPoints(_, _)
SumPoints(criteria, i) ==
    IF i > Len(criteria) THEN 0
    ELSE (IF criteria[i].counted THEN criteria[i].points ELSE 0)
         + SumPoints(criteria, i + 1)

RECURSIVE SumMax(_, _)
SumMax(criteria, i) ==
    IF i > Len(criteria) THEN 0
    ELSE (IF criteria[i].counted THEN criteria[i].max ELSE 0)
         + SumMax(criteria, i + 1)

OverallScore(score, max_score) ==
    IF max_score > 0 THEN (score * 100) \div max_score ELSE 0

\* the verdict as it would be with the first tier starting at 70
AudioVerdictFrom70(overall_score) ==
    IF overall_score >= 70 THEN "Excellent for voice training"
    ELSE IF overall_score >= 60 THEN "Good for voice training"
    ELSE IF overall_score >= 40 THEN "Acceptable for voice training"
    ELSE "Poor quality - recommend re-recording"

\* audio_analyzer.py lines 756-764
AudioVerdict(overall_score) ==
    IF overall_score >= 80 THEN "Excellent for voice training"
    ELSE IF overall_score >= 60 THEN "Good for voice training"
    ELSE IF overall_score >= 40 THEN "Acceptable for voice training"
    ELSE "Poor quality - recommend re-recording"

Suitability(op, criteria, overall_score, verdict) ==
    [op |-> op,
     criteria |-> criteria,
     score |-> SumPoints(criteria, 1),
     max_score |-> SumMax(criteria, 1),
     overall_score |-> overall_score,
     issues |-> UNION {criteria[i].issues : i \in 1..Len(criteria)},
     verdict |-> verdict]

\* AudioAnalyzer._assess_training_suitability
AudioSuitability(r) ==
    LET criteria == AudioCriteria(r)
        overall_score == OverallScore(SumPoints(criteria, 1), SumMax(criteria, 1))
    IN Suitability("audio", criteria, overall_score, AudioVerdict(overall_score))

VideoDurations == {5, 20, 45}
MeanEnergies == {0, 3, 10}
FaceDetectionRates == {10, 50, 90}
VoiceActivityRatios == {10, 50, 90}
\* movement_analysis: -1 is the {"error": ...} dictionary of a failed analysis
MovementAnalyses == {-1, 5, 50}

\* the analysis_results analyze_video hands to its scorer
VideoRecords ==
    {[op |-> "video",
      basic_info |-> [has |-> d > 0, duration |-> d],
      audio_features |-> a,
      visual_features |-> v] :
        d \in VideoDurations \cup {0},
        a \in {[has |-> FALSE, mean_energy |-> 0, voice_activity_ratio |-> 0]} \cup
              {[has |-> TRUE, mean_energy |-> e, voice_activity_ratio |-> r] :
                   e \in MeanEnergies, r \in VoiceActivityRatios},
        v \in {[has |-> FALSE, face_detection_rate |-> 0,
                movement_analysis |-> [has |-> FALSE, average_movement |-> 0]]} \cup
              {[has |-> TRUE, face_detection_rate |-> f,
                movement_analysis |-> [has |-> m >= 0, average_movement |-> Max(m, 0)]] :
                   f \in FaceDetectionRates, m \in MovementAnalyses}}

\* video_analyzer.py _assess_training_suitability, lines 578-655
VideoCriteria(r) ==
    LET duration == r.basic_info.duration
        energy == r.audio_features.mean_energy
        face_rate == r.visual_features.face_detection_rate
        voice_ratio == r.audio_features.voice_activity_ratio
        movement == r.visual_features.movement_analysis
    IN << IF ~r.basic_info.has THEN NoCriterion
          ELSE IF duration < 10
               THEN Criterion(20, 5, {"Video too short (minimum 10 seconds recommended)"})
          ELSE IF duration < 30 THEN Criterion(20, 15, {})
          ELSE Criterion(20, 20, {}),
          IF ~r.audio_features.has THEN NoCriterion
          ELSE IF energy < 1
               THEN Criterion(20, 5, {"Audio level very low - may affect voice training"})
          ELSE IF energy < 5 THEN Criterion(20, 15, {})
          ELSE Criterion(20, 20, {}),
          IF ~r.visual_features.has THEN NoCriterion
          ELSE IF face_rate < 30
               THEN Criterion(20, 5, {"Face not consistently visible - affects visual training"})
          ELSE IF face_rate < 70 THEN Criterion(20, 15, {})
          ELSE Criterion(20, 20, {}),
          IF ~r.audio_features.has THEN NoCriterion
          ELSE IF voice_ratio < 30
               THEN Criterion(20, 5, {"Limited voice activity detected"})
          ELSE IF voice_ratio < 60 THEN Criterion(20, 15, {})
          ELSE Criterion(20, 20, {}),
          \* "movement_analysis" in visual_features and it is a dict: the
          \* {"error": ...} of a failed analysis is a dict too
          IF ~r.visual_features.has THEN NoCriterion
          ELSE IF ~movement.has
               THEN [counted |-> TRUE, signal |-> FALSE, max |-> 20, points |-> 0,
                     issues |-> {}]
          ELSE IF movement.average_movement < 10 THEN Criterion(20, 10, {})
          ELSE Criterion(20, 20, {}) >>

\* video_analyzer.py lines 662-670
VideoVerdict(overall_score) ==
    IF overall_score >= 80 THEN "Excellent for training"
    ELSE IF overall_score >= 60 THEN "Good for training"
    ELSE IF overall_score >= 40 THEN "Acceptable for training"
    ELSE "Poor quality - consider re-recording"

\* VideoAnalyzer._assess_training_suitability
VideoSuitability(r) ==
    LET criteria == VideoCriteria(r)
        overall_score ==
            Min(100, OverallScore(SumPoints(criteria, 1), SumMax(criteria, 1)))
    IN Suitability("video", criteria, overall_score, VideoVerdict(overall_score))

\* a scorer applied to one analysis
ScoreInit ==
    /\ NoInputs
    /\ PipelineIdle
    /\ FleetIdle
    /\ call \in AudioRecords \cup VideoRecords
    /\ ret = [op |-> "none"]

AssessAudio ==
    /\ call.op = "audio"
    /\ ret.op = "none"
    /\ ret' = AudioSuitability(call)
    /\ UNCHANGED <<inputs, pipeline, fleet, call>>

AssessVideo ==
    /\ call.op = "video"
    /\ ret.op = "none"
    /\ ret' = VideoSuitability(call)
    /\ UNCHANGED <<inputs, pipeline, fleet, call>>

ScoreNext ==
    \/ AssessAudio
    \/ AssessVideo

SpecScore == ScoreInit /\ [][ScoreNext]_vars

\* --------------------------------------- _process_audio_files on its own
MaxAudioFiles == 2      \* length of the audio_files list

\* what analyze_audio makes of the files of the list: a selection of
\* AudioRecords that scores on both sides of the bar and exactly on it
StageVoiceQualities ==
    {NoVoiceQuality, AssessVoiceQuality(5, 0, 0, 200), AssessVoiceQuality(5, 0, 0, 50),
     AssessVoiceQuality(25, 40, 100, 0)}

NoAnalysis ==
    [op |-> "audio",
     basic_info |-> [has |-> FALSE, duration |-> 0],
     voice_quality |-> NoVoiceQuality,
     voice_characteristics |-> [has |-> FALSE, harmonics_to_noise_ratio |-> 0]]

AudioFiles ==
    {[kind |-> k, analysis |-> NoAnalysis] : k \in {"missing", "error", "raises"}}
    \cup {[kind |-> "record", analysis |-> r] :
             r \in {a \in AudioRecords : /\ a.basic_info.duration \in {3, 45}
                                         /\ a.voice_quality \in StageVoiceQualities}}

\* the analyzer's result for each file of the list, as the per-file loop sees it
Outcomes(audio_files) ==
    [i \in 1..Len(audio_files) |->
        [kind |-> audio_files[i].kind,
         overall_score |-> IF audio_files[i].kind = "record"
                           THEN AudioSuitability(audio_files[i].analysis).overall_score
                           ELSE 0]]

AudioStageInit ==
    /\ NoInputs
    /\ PipelineIdle
    /\ FleetIdle
    /\ \E n \in 0..MaxAudioFiles : \E files \in [1..n -> AudioFiles] :
       \E training_success \in BOOLEAN :
           call = [op |-> "process_audio", audio_files |-> files,
                   training_success |-> training_success]
    /\ ret = [op |-> "none"]

\* training_pipeline.py lines 196-263: the per-file loop, the content
\* written to audio/audio_analysis.json, the calls of train_voice_model
\* (their arguments, in order; call.training_success is what it returns)
\* and the files extract_voice_segments is called with
ProcessAudioFiles ==
    /\ call.op = "process_audio"
    /\ ret.op = "none"
    /\ LET audio_analyses == Analyses(Outcomes(call.audio_files), 1)
           suitable_files == SuitableOf(audio_analyses, AudioAcceptanceBar)
       IN ret' = [op |-> "process_audio",
                  total_files |-> Len(call.audio_files),
                  suitable_files |-> suitable_files,
                  train_voice_model |->
                      IF suitable_files # <<>> THEN <<suitable_files>> ELSE <<>>,
                  extract_voice_segments |->
                      IF suitable_files # <<>> /\ call.training_success
                      THEN suitable_files ELSE <<>>,
                  analyses |-> [k \in 1..Len(audio_analyses) |->
                      [path |-> audio_analyses[k].path,
                       training_suitability |->
                           AudioSuitability(call.audio_files[audio_analyses[k].path].analysis)]]]
    /\ UNCHANGED <<inputs, pipeline, fleet, call>>

AudioStageNext == ProcessAudioFiles

SpecAudioStage == AudioStageInit /\ [][AudioStageNext]_vars

\* ------------------------------------------ feature aggregation on its own
\* A mean is kept as a reduced fraction, a standard deviation by its square
\* (the variance, a reduced fraction): two lists have the same np.std exactly
\* when they have the same variance.  quality_consistency, tempo_consistency
\* and visibility_consistency are 1 / (std + 1e-10), a one-to-one function
\* of the deviation, and are represented by it.  Of each analysis the model
\* keeps two signal groups of an audio record (spectral_features with
\* spectral_centroid_mean, voice_quality with overall_quality_score) and one
\* of a video record (visual_features with face_detection_rate); has = FALSE
\* is the {"error": ...} value the analyzer stores for a failed group.
MaxRecords == 3      \* length of the list of analyses

Centroids == {1, 2}
QualityScores == {1, 2}
FaceRates == {30, 80}

AudioAnalyses ==
    {[spectral_features |-> [has |-> c > 0, spectral_centroid_mean |-> c],
      voice_quality |-> [has |-> q > 0, overall_quality_score |-> q]] :
        c \in Centroids \cup {0}, q \in QualityScores \cup {0}}

VideoAnalyses ==
    {[visual_features |-> [has |-> f > 0, face_detection_rate |-> f]] :
        f \in FaceRates \cup {0}}

RECURSIVE GCD(_, _)
GCD(a, b) == IF b = 0 THEN a ELSE GCD(b, a % b)

Fraction(n, d) == [num |-> n \div GCD(n, d), den |-> d \div GCD(n, d)]

NoStatistic == [num |-> 0, den |-> 1]

RECURSIVE Sum(_)
Sum(xs) == IF xs = <<>> THEN 0 ELSE Head(xs) + Sum(Tail(xs))

RECURSIVE SumSq(_)
SumSq(xs) == IF xs = <<>> THEN 0 ELSE Head(xs) * Head(xs) + SumSq(Tail(xs))

NpMean(xs) == Fraction(Sum(xs), Len(xs))

\* np.std squared: mean((x - mean)^2)
NpStd(xs) == Fraction(Len(xs) * SumSq(xs) - Sum(xs) * Sum(xs), Len(xs) * Len(xs))

\* the first value of the list
FirstValue(xs) == Head(xs)

RECURSIVE NpMin(_)
NpMin(xs) ==
    IF Len(xs) = 1 THEN Head(xs) ELSE Min(Head(xs), NpMin(Tail(xs)))

RECURSIVE NpMax(_)
NpMax(xs) ==
    IF Len(xs) = 1 THEN Head(xs) ELSE Max(Head(xs), NpMax(Tail(xs)))

\* [f.get("spectral_centroid_mean", 0) for f in spectral_features]: every
\* analysis has the key "spectral_features"; a failed group has no
\* spectral_centroid_mean and yields the default
RECURSIVE CentroidsOrDefault(_)
CentroidsOrDefault(analyses) ==
    IF analyses = <<>> THEN <<>>
    ELSE <<IF Head(analyses).spectral_features.has
           THEN Head(analyses).spectral_features.spectral_centroid_mean
           ELSE 0>> \o CentroidsOrDefault(Tail(analyses))

\* analysis["voice_quality"].get("overall_quality_score", 0)
RECURSIVE QualityOrDefault(_)
QualityOrDefault(analyses) ==
    IF analyses = <<>> THEN <<>>
    ELSE <<IF Head(analyses).voice_quality.has
           THEN Head(analyses).voice_quality.overall_quality_score
           ELSE 0>> \o QualityOrDefault(Tail(analyses))

\* the metadata as it would be without the number of files
NoFileCount(analyses) == [total_files |-> 0]

\* training_metadata: total_audio_files / total_video_files
TrainingMetadata(analyses) == [total_files |-> Len(analyses)]

NotWritten == [op |-> "none", written |-> FALSE]

\* _extract_advanced_voice_features, lines 460-529: the content of
\* advanced_voice_features.json, or NotWritten for an empty list
ExtractAdvancedVoiceFeatures(audio_analyses) ==
    IF audio_analyses = <<>> THEN [NotWritten EXCEPT !.op = "voice"]
    ELSE LET spectral == CentroidsOrDefault(audio_analyses)
             quality_scores == QualityOrDefault(audio_analyses)
         IN [op |-> "voice",
             written |-> TRUE,
             voice_characteristics |->
                 [has |-> TRUE,
                  average_pitch |-> NpMean(spectral),
                  pitch_variance |-> NpStd(spectral)],
             quality_metrics |->
                 [has |-> TRUE,
                  average_quality |-> NpMean(quality_scores),
                  quality_consistency |-> NpStd(quality_scores),
                  minimum_quality |-> NpMin(quality_scores),
                  maximum_quality |-> NpMax(quality_scores)],
             training_metadata |-> TrainingMetadata(audio_analyses)]

\* face_detection_rates: only of the analyses whose visual_features has one
RECURSIVE FaceDetectionRatesOf(_)
FaceDetectionRatesOf(analyses) ==
    IF analyses = <<>> THEN <<>>
    ELSE (IF Head(analyses).visual_features.has
          THEN <<Head(analyses).visual_features.face_detection_rate>>
          ELSE <<>>) \o FaceDetectionRatesOf(Tail(analyses))

\* _extract_advanced_visual_features, lines 542-605
ExtractAdvancedVisualFeatures(video_analyses) ==
    IF video_analyses = <<>> THEN [NotWritten EXCEPT !.op = "visual"]
    ELSE LET face_detection_rates == FaceDetectionRatesOf(video_analyses)
         IN [op |-> "visual",
             written |-> TRUE,
             visual_characteristics |->
                 IF face_detection_rates # <<>>
                 THEN [has |-> TRUE,
                       average_visibility |-> NpMean(face_detection_rates),
                       visibility_consistency |-> NpStd(face_detection_rates),
                       camera_presence |->
                           IF Sum(face_detection_rates) > 70 * Len(face_detection_rates)
                           THEN "high"
                           ELSE IF Sum(face_detection_rates) > 40 * Len(face_detection_rates)
                                THEN "medium"
                           ELSE "low"]
                 ELSE [has |-> FALSE,
                       average_visibility |-> NoStatistic,
                       visibility_consistency |-> NoStatistic,
                       camera_presence |-> "none"],
             training_metadata |-> TrainingMetadata(video_analyses)]

AggregateInit ==
    /\ NoInputs
    /\ PipelineIdle
    /\ FleetIdle
    /\ \E n \in 0..MaxRecords :
          \/ \E a \in [1..n -> AudioAnalyses] : call = [op |-> "voice", analyses |-> a]
          \/ \E v \in [1..n -> VideoAnalyses] : call = [op |-> "visual", analyses |-> v]
    /\ ret = [op |-> "none"]

AggregateVoice ==
    /\ call.op = "voice"
    /\ ret.op = "none"
    /\ ret' = ExtractAdvancedVoiceFeatures(call.analyses)
    /\ UNCHANGED <<inputs, pipeline, fleet, call>>

AggregateVisual ==
    /\ call.op = "visual"
    /\ ret.op = "none"
    /\ ret' = ExtractAdvancedVisualFeatures(call.analyses)
    /\ UNCHANGED <<inputs, pipeline, fleet, call>>

AggregateNext ==
    \/ AggregateVoice
    \/ AggregateVisual

SpecAggregate == AggregateInit /\ [][AggregateNext]_vars

\* -------------------------------------------- extract_voice_segments
\* Time is counted in hops (hop_length samples).  The recording is a whole
\* number of hops, frame i of _detect_voice_segments covers hop i and
\* carries that hop's energy; min_samples is a whole number of hops.
\* librosa.effects.trim(top_db=20) keeps the span from the first to the last
\* hop whose power is within 20 dB (a factor 100) of the segment's peak.
MaxHops == 5      \* length of the recording, in hops

Energies == {0, 1, 200}
MinSamples == {1, 2, 3}

\* the k-th smallest value of a sequence
OrderStatistic(xs, k) ==
    CHOOSE v \in {xs[i] : i \in 1..Len(xs)} :
        /\ Cardinality({i \in 1..Len(xs) : xs[i] < v}) < k
        /\ Cardinality({i \in 1..Len(xs) : xs[i] <= v}) >= k

\* scipy.signal.medfilt(energy, kernel_size=5): median of the window of
\* five around i, zero-padded at both ends
Medfilt(energy) ==
    [i \in 1..Len(energy) |->
        OrderStatistic([j \in 1..5 |->
                           IF i + j - 3 \in 1..Len(energy) THEN energy[i + j - 3] ELSE 0],
                       3)]

\* ten times np.percentile(xs, 30), linear interpolation between the two
\* neighbouring order statistics
Percentile30Times10(xs) ==
    LET position == 3 * (Len(xs) - 1)
        lower == position \div 10 + 1
        fraction == position % 10
    IN IF fraction = 0 THEN 10 * OrderStatistic(xs, lower)
       ELSE (10 - fraction) * OrderStatistic(xs, lower)
            + fraction * OrderStatistic(xs, lower + 1)

\* the loop over voice_activity, lines 845-856, from frame i on
RECURSIVE SegmentsFrom(_, _, _, _, _)
SegmentsFrom(voice_activity, i, in_voice, segment_start, min_samples) ==
    IF i > Len(voice_activity)
    THEN \* lines 858-862: voice continues to the end
         IF in_voice /\ Len(voice_activity) - segment_start >= min_samples
         THEN <<[start |-> segment_start, end |-> Len(voice_activity)]>>
         ELSE <<>>
    ELSE LET sample_pos == i - 1
         IN IF voice_activity[i] /\ ~in_voice
            THEN SegmentsFrom(voice_activity, i + 1, TRUE, sample_pos, min_samples)
            ELSE IF ~voice_activity[i] /\ in_voice
                 THEN (IF sample_pos - segment_start >= min_samples
                       THEN <<[start |-> segment_start,
                               end |-> Min(sample_pos, Len(voice_activity))]>>
                       ELSE <<>>)
                      \o SegmentsFrom(voice_activity, i + 1, FALSE, segment_start,
                                      min_samples)
            ELSE SegmentsFrom(voice_activity, i + 1, in_voice, segment_start, min_samples)

\* _detect_voice_segments, lines 820-868
DetectVoiceSegments(y, scipy_available, min_samples) ==
    LET energy_smooth == IF scipy_available THEN Medfilt(y) ELSE y
        threshold10 == Percentile30Times10(energy_smooth)
        voice_activity == [i \in 1..Len(y) |-> 10 * energy_smooth[i] > threshold10]
    IN SegmentsFrom(voice_activity, 1, FALSE, 0, min_samples)

\* librosa.effects.trim(segment, top_db=20): the hops of the segment whose
\* power is within 20 dB of the segment's peak
NonSilent(y, seg) ==
    LET peak == NpMax([k \in 1..(seg.end - seg.start) |-> y[seg.start + k]])
    IN {k \in (seg.start + 1)..seg.end : y[k] * 100 > peak \/ peak = 0}

\* _clean_audio_segment, lines 870-888: the span of the recording that is
\* left of the segment (normalising and filtering keep the length)
CleanAudioSegment(y, seg) ==
    LET kept == NonSilent(y, seg)
        first == CHOOSE k \in kept : \A j \in kept : k <= j
        last == CHOOSE k \in kept : \A j \in kept : k >= j
    IN IF kept = {} THEN [start |-> seg.start, end |-> seg.start]
       ELSE [start |-> first - 1, end |-> last]

SegmentsInit ==
    /\ NoInputs
    /\ PipelineIdle
    /\ FleetIdle
    /\ \E n \in 1..MaxHops : \E y \in [1..n -> Energies] :
       \E m \in MinSamples : \E scipy \in BOOLEAN :
           call = [op |-> "segments", y |-> y, min_samples |-> m,
                   SCIPY_AVAILABLE |-> scipy]
    /\ ret = [op |-> "none"]

\* extract_voice_segments, lines 775-818: detect, clean each segment, write
\* it; written[k] is the span of the recording in the k-th file
ExtractVoiceSegments ==
    /\ call.op = "segments"
    /\ ret.op = "none"
    /\ LET voice_segments ==
               DetectVoiceSegments(call.y, call.SCIPY_AVAILABLE, call.min_samples)
       IN ret' = [op |-> "segments",
                  voice_segments |-> voice_segments,
                  written |-> [k \in 1..Len(voice_segments) |->
                                  CleanAudioSegment(call.y, voice_segments[k])]]
    /\ UNCHANGED <<inputs, pipeline, fleet, call>>

SegmentsNext == ExtractVoiceSegments

SpecSegments == SegmentsInit /\ [][SegmentsNext]_vars

\* ------------------------------------- two personas on one event loop
\* CloneKingApp.start_persona_training submits each train_persona call to
\* the application's single event loop with run_coroutine_threadsafe.  No
\* await inside train_persona suspends (every awaited coroutine runs to its
\* end without waiting on a future), so the loop runs one call from its
\* first statement to its return before it starts the next.  The jobs have
\* audio files only and no progress callback; a stage failure is an
\* exception escaping _process_audio_files at its first statement.
MaxJobFiles == 1      \* audio files in one persona's training_data

Personas == {"p1", "p2"}
Sources == {"a.wav", "b.wav"}

SourceOutcomes == {o \in MediaOutcomes : o.kind \in {"missing", "record"}}

\* the file <root>/<owner>/<name>; for a file beside a source, root is
\* "source" and owner the source file
Path(by, root, owner, name) == [by |-> by, root |-> root, owner |-> owner, name |-> name]

AudioOf(p) == requests[p].training_data.audio

\* the analyzer's result for each file of persona p's list
OutcomesOf(p) == [i \in 1..Len(AudioOf(p)) |-> sources[AudioOf(p)[i]]]

\* _process_audio_files: the files the stage writes for persona p
AudioStageWrites(p) ==
    LET audio_analyses == Analyses(OutcomesOf(p), 1)
        suitable_files == SuitableOf(audio_analyses, AudioAcceptanceBar)
        trained == suitable_files # <<>> /\ requests[p].training_success
    IN \* lines 226-233
       {Path(p, "training", p, <<"audio", "audio_analysis.json">>)}
       \* coqui_tts.py train_voice_model: reference and metadata of the voice
       \cup (IF trained
             THEN {Path(p, "voice_models", p, <<"voice_reference.wav">>),
                   Path(p, "voice_models", p, <<"voice_metadata.json">>)}
             ELSE {})
       \* lines 251-253 with audio_analyzer.py lines 795-809: the segments of
       \* a suitable file are written to <stem>_segments beside that file
       \cup (IF trained
             THEN {Path(p, "source", AudioOf(p)[suitable_files[k]],
                        <<"segments", "segment_01.wav">>) :
                       k \in 1..Len(suitable_files)}
             ELSE {})
       \* lines 255-263: and copied to <root>/<persona>/audio/voice_segments
       \cup (IF trained
             THEN {Path(p, "training", p, <<"audio", "voice_segments">>)}
             ELSE {})
       \* line 272
       \cup (IF audio_analyses # <<>>
             THEN {Path(p, "training", p, <<"advanced_voice_features.json">>)}
             ELSE {})

TwoInit ==
    /\ NoInputs
    /\ PipelineIdle
    /\ AnalyzerIdle
    /\ sources \in [Sources -> SourceOutcomes]
    /\ \E data \in [Personas -> UNION {[1..n -> Sources] : n \in 0..MaxJobFiles}] :
       \E success \in [Personas -> BOOLEAN] : \E fails \in [Personas -> BOOLEAN] :
           requests = [p \in Personas |->
                          [training_data |-> [audio |-> data[p]],
                           training_success |-> success[p],
                           stage_fails |-> fails[p]]]
    /\ jobs = [p \in Personas |->
                  [pc |-> "start", current_step |-> 0, total_steps |-> 0,
                   result |-> "pending"]]
    /\ loop = "idle"
    /\ written = {}

\* the variables of a single run that the two jobs leave alone
single == <<pc, current_step, total_steps, exc, result, disk, callbacks, started,
            finished, cancel_result, cancel_mark>>

\* lines 59-81: the loop takes up the call; it registers its TrainingProgress
JobStart(p) ==
    /\ loop = "idle"
    /\ jobs[p].pc = "start"
    /\ loop' = p
    /\ active_trainings' =
           (p :> [persona_id |-> p,
                  current_step |-> <<"Initializing", 0, 0>>,
                  progress_percentage |-> 0,
                  status |-> "running",
                  details |-> Details("Preparing training pipeline", 0, "")])
           @@ active_trainings
    /\ jobs' = [jobs EXCEPT ![p] =
                   [@ EXCEPT !.pc = IF AudioOf(p) # <<>> THEN "begin_audio"
                                    ELSE "begin_synthesis",
                             !.total_steps = IF AudioOf(p) # <<>> THEN 1 ELSE 0]]
    /\ UNCHANGED <<inputs, single, analyzer, requests, sources, written>>

\* lines 84-91
JobBeginAudio(p) ==
    /\ loop = p
    /\ jobs[p].pc = "begin_audio"
    /\ active_trainings' = [active_trainings EXCEPT ![p] =
           [@ EXCEPT !.current_step = <<"Processing audio files",
                                        jobs[p].current_step + 1, jobs[p].total_steps>>,
                     !.progress_percentage =
                         Pct(jobs[p].current_step + 1, jobs[p].total_steps),
                     !.details = Details("Processing audio files", Len(AudioOf(p)), "")]]
    /\ jobs' = [jobs EXCEPT ![p] =
                   [@ EXCEPT !.pc = "run_audio", !.current_step = @ + 1]]
    /\ UNCHANGED <<inputs, single, analyzer, requests, sources, loop, written>>

\* lines 93-97: _process_audio_files returns, or raises
JobRunAudio(p) ==
    /\ loop = p
    /\ jobs[p].pc = "run_audio"
    /\ IF requests[p].stage_fails
       THEN /\ jobs' = [jobs EXCEPT ![p] = [@ EXCEPT !.pc = "except"]]
            /\ UNCHANGED written
       ELSE /\ jobs' = [jobs EXCEPT ![p] = [@ EXCEPT !.pc = "begin_synthesis"]]
            /\ written' = written \cup AudioStageWrites(p)
    /\ UNCHANGED <<inputs, single, analyzer, requests, sources, loop, active_trainings>>

\* lines 147-153
JobBeginSynthesis(p) ==
    /\ loop = p
    /\ jobs[p].pc = "begin_synthesis"
    /\ active_trainings' = [active_trainings EXCEPT ![p] =
           [@ EXCEPT !.current_step = <<"Synthesizing persona model", 0, 0>>,
                     !.progress_percentage = SynthesisProgress,
                     !.details = Details("Creating unified persona model", 0, "")]]
    /\ jobs' = [jobs EXCEPT ![p] = [@ EXCEPT !.pc = "run_synthesis"]]
    /\ UNCHANGED <<inputs, single, analyzer, requests, sources, loop, written>>

\* line 155: _synthesize_persona_model writes persona_model.json
JobRunSynthesis(p) ==
    /\ loop = p
    /\ jobs[p].pc = "run_synthesis"
    /\ written' = written \cup {Path(p, "training", p, <<"persona_model.json">>)}
    /\ jobs' = [jobs EXCEPT ![p] = [@ EXCEPT !.pc = "complete"]]
    /\ UNCHANGED <<inputs, single, analyzer, requests, sources, loop, active_trainings>>

\* lines 157-167: the run ends completed and the loop is free again
JobComplete(p) ==
    /\ loop = p
    /\ jobs[p].pc = "complete"
    /\ active_trainings' = [active_trainings EXCEPT ![p] =
           [@ EXCEPT !.current_step = <<"Training completed", 0, 0>>,
                     !.progress_percentage = CompletedProgress,
                     !.status = "completed",
                     !.details = Details("Persona training successful", 0, "")]]
    /\ jobs' = [jobs EXCEPT ![p] = [@ EXCEPT !.pc = "done", !.result = "true"]]
    /\ loop' = "idle"
    /\ UNCHANGED <<inputs, single, analyzer, requests, sources, written>>

\* lines 169-178: the except block
JobExcept(p) ==
    /\ loop = p
    /\ jobs[p].pc = "except"
    /\ active_trainings' = [active_trainings EXCEPT ![p] =
           [@ EXCEPT !.status = "failed",
                     !.details = Details("Training failed: ", 0, "stage raised")]]
    /\ jobs' = [jobs EXCEPT ![p] = [@ EXCEPT !.pc = "done", !.result = "false"]]
    /\ loop' = "idle"
    /\ UNCHANGED <<inputs, single, analyzer, requests, sources, written>>

TwoNext ==
    \/ \E p \in Personas : JobStart(p)
    \/ \E p \in Personas : JobBeginAudio(p)
    \/ \E p \in Personas : JobRunAudio(p)
    \/ \E p \in Personas : JobBeginSynthesis(p)
    \/ \E p \in Personas : JobRunSynthesis(p)
    \/ \E p \in Personas : JobComplete(p)
    \/ \E p \in Personas : JobExcept(p)

SpecTwo == TwoInit /\ [][TwoNext]_vars

\* ------------------------------------- _process_video_files
\* One call of the video stage (train_persona enters it only when
\* VIDEO_PROCESSING_AVAILABLE holds).  A video file is what the per-file
\* loop meets (missing, analyzer error, analyzer raising, or a record with
\* its overall_score) together with the clips extract_training_clips
\* returns for it; a clip says whether VideoFileClip finds an audio track in
\* it and what analyze_audio makes of the track written from it.  The clips
\* of every video are called training_clip_01.mp4, training_clip_02.mp4, ...
\* (video_analyzer.py line 706) in a directory of their own, and the track
\* of clip k is written to <output_dir>/clip_audio_training_clip_<k>.wav
\* (line 324): the path is named here by k, and a later video's track
\* replaces an earlier one's at the same path.
MaxVideoFiles == 2    \* video files in one call
MaxClips == 1         \* clips extracted from one video

BonusAcceptanceBar == 30

BonusScores == {29, 30}

ClipOutcomes ==
    {[audio |-> FALSE, kind |-> "record", overall_score |-> 0]}
    \cup {[audio |-> TRUE, kind |-> k, overall_score |-> 0] : k \in {"error", "raises"}}
    \cup {[audio |-> TRUE, kind |-> "record", overall_score |-> n] : n \in BonusScores}

ClipLists == UNION {[1..n -> ClipOutcomes] : n \in 0..MaxClips}

VideoFiles ==
    {[kind |-> k, overall_score |-> 0, clips |-> <<>>] :
         k \in {"missing", "error", "raises"}}
    \cup {[kind |-> "record", overall_score |-> 39, clips |-> <<>>]}
    \cup {[kind |-> "record", overall_score |-> 40, clips |-> c] : c \in ClipLists}

\* lines 319-329: the tracks written from the clips k..Len(clips) of video i
RECURSIVE ClipAudio(_, _, _)
ClipAudio(i, clips, k) ==
    IF k > Len(clips) THEN <<>>
    ELSE (IF clips[k].audio THEN <<[path |-> k, video |-> i]>> ELSE <<>>)
         \o ClipAudio(i, clips, k + 1)

\* lines 288-335: extracted_audio_files after the files i..Len(video_files),
\* each entry with the video whose clip was written to the path
RECURSIVE ExtractedAudio(_, _)
ExtractedAudio(video_files, i) ==
    IF i > Len(video_files) THEN <<>>
    ELSE (IF Analysed(video_files[i])
             /\ video_files[i].overall_score >= VideoAcceptanceBar
          THEN ClipAudio(i, video_files[i].clips, 1)
          ELSE <<>>)
         \o ExtractedAudio(video_files, i + 1)

\* the clip whose track the file at path holds when the per-file loop has
\* ended: the last one written there
RECURSIVE LastWritten(_, _, _)
LastWritten(video_files, extracted, path) ==
    LET last == extracted[Len(extracted)]
    IN IF last.path = path THEN video_files[last.video].clips[path]
       ELSE LastWritten(video_files, SubSeq(extracted, 1, Len(extracted) - 1), path)

\* lines 356-365: the paths of extracted_audio_files whose analysis is a
\* record scoring at least 30
RECURSIVE SuitableAudio(_, _, _)
SuitableAudio(video_files, extracted, j) ==
    IF j > Len(extracted) THEN <<>>
    ELSE LET track == LastWritten(video_files, extracted, extracted[j].path)
         IN (IF Analysed(track) /\ track.overall_score >= BonusAcceptanceBar
             THEN <<extracted[j].path>> ELSE <<>>)
            \o SuitableAudio(video_files, extracted, j + 1)

VideoStageInit ==
    /\ NoInputs /\ PipelineIdle /\ FleetIdle
    /\ \E n \in 0..MaxVideoFiles : \E files \in [1..n -> VideoFiles] :
           call = [op |-> "process_video", video_files |-> files]
    /\ ret = [op |-> "none"]

\* lines 280-374: video_analysis.json, the analysis of the extracted
\* tracks, the calls of train_voice_model (there is none in the stage) and
\* the files of the persona's training directory the stage writes
ProcessVideoFiles ==
    /\ call.op = "process_video"
    /\ ret.op = "none"
    /\ LET video_analyses == Analyses(call.video_files, 1)
           extracted == ExtractedAudio(call.video_files, 1)
           extracted_audio_files == [j \in 1..Len(extracted) |-> extracted[j].path]
       IN ret' = [op |-> "process_video",
                  video_analysis |->
                      [analyses |-> video_analyses,
                       extracted_audio_files |-> extracted_audio_files,
                       total_files |-> Len(call.video_files)],
                  suitable_audio |-> SuitableAudio(call.video_files, extracted, 1),
                  train_voice_model |-> <<>>,
                  written |->
                      {"video/video_analysis.json"}
                      \cup (IF video_analyses # <<>>
                            THEN {"advanced_visual_features.json"} ELSE {})]
    /\ UNCHANGED <<inputs, pipeline, fleet, call>>

VideoStageNext == ProcessVideoFiles

SpecVideoStage == VideoStageInit /\ [][VideoStageNext]_vars

\* ------------------------------------- _identify_training_segments
\* The ranges extract_training_clips cuts (video_analyzer.py line 689).
\* Times are counted in half seconds, so that int(duration) truncates.
\* The voice segments of a record are those _detect_voice_activity
\* returns: in increasing order, each of positive length, two neighbours
\* separated by at least one frame; here their ends lie on whole seconds.
MaxSeconds == 12      \* latest end of a voice segment, in seconds
MaxDuration == 150    \* longest video without voice segments, in half seconds

min_duration == 5
max_gap == 2
chunk_size == 30
min_chunk == 10

Halves(seconds) == 2 * seconds

RECURSIVE Ascending(_)
Ascending(S) ==
    IF S = {} THEN <<>>
    ELSE LET m == CHOOSE x \in S : \A y \in S : x <= y
         IN <<m>> \o Ascending(S \ {m})

\* the list (t1, t2), (t3, t4), ... of the ascending times t1 < t2 < ...
PairUp(times) == [k \in 1..(Len(times) \div 2) |-> <<times[2 * k - 1], times[2 * k]>>]

VoiceSegmentLists ==
    {PairUp(Ascending({Halves(t) : t \in S})) :
         S \in {T \in SUBSET (0..MaxSeconds) : Cardinality(T) % 2 = 0}}

VoicedDurations == {Halves(MaxSeconds), Halves(MaxSeconds) + 41}

\* lines 750-753: the segments at least min_duration long
RECURSIVE LongEnough(_)
LongEnough(segs) ==
    IF segs = <<>> THEN <<>>
    ELSE (IF Head(segs)[2] - Head(segs)[1] >= Halves(min_duration)
          THEN <<Head(segs)>> ELSE <<>>)
         \o LongEnough(Tail(segs))

\* lines 759-766: current is merged into the last merged segment when the
\* gap between them is at most max_gap
RECURSIVE MergeInto(_, _)
MergeInto(merged_segments, rest) ==
    IF rest = <<>> THEN merged_segments
    ELSE LET current == Head(rest)
             last == merged_segments[Len(merged_segments)]
         IN IF current[1] - last[2] <= Halves(max_gap)
            THEN MergeInto([merged_segments EXCEPT ![Len(merged_segments)] =
                                <<last[1], current[2]>>], Tail(rest))
            ELSE MergeInto(Append(merged_segments, current), Tail(rest))

\* lines 756-768
MergeClose(segs) ==
    IF segs = <<>> THEN <<>> ELSE MergeInto(<<Head(segs)>>, Tail(segs))

\* every chunk kept, whatever its length
RECURSIVE ChunksWithRemainder(_, _)
ChunksWithRemainder(duration, start) ==
    IF start >= duration \div 2 THEN <<>>
    ELSE LET end == IF Halves(start + chunk_size) <= duration
                    THEN Halves(start + chunk_size) ELSE duration
         IN <<<<Halves(start), end>>>>
            \o ChunksWithRemainder(duration, start + chunk_size)

\* lines 777-780: for start in range(0, int(duration), int(chunk_size)),
\* the chunk from start to min(start + chunk_size, duration) is kept when it
\* is at least 10 s long; start is in seconds
RECURSIVE Chunks(_, _)
Chunks(duration, start) ==
    IF start >= duration \div 2 THEN <<>>
    ELSE LET end == IF Halves(start + chunk_size) <= duration
                    THEN Halves(start + chunk_size) ELSE duration
         IN (IF end - Halves(start) >= Halves(min_chunk)
             THEN <<<<Halves(start), end>>>> ELSE <<>>)
            \o Chunks(duration, start + chunk_size)

\* lines 736-786
IdentifyTrainingSegments(c) ==
    LET segments == IF c.has_voice_segments
                    THEN MergeClose(LongEnough(c.voice_segments))
                    ELSE <<>>
    IN IF segments # <<>>
       THEN [op |-> "identify_training_segments", fallback |-> FALSE,
             segments |-> segments]
       ELSE [op |-> "identify_training_segments", fallback |-> TRUE,
             segments |-> IF c.has_duration THEN Chunks(c.duration, 0) ELSE <<>>]

ClipsInit ==
    /\ NoInputs /\ PipelineIdle /\ FleetIdle
    /\ \/ \E vs \in VoiceSegmentLists : \E d \in VoicedDurations :
              call = [op |-> "identify_training_segments",
                      has_voice_segments |-> TRUE, voice_segments |-> vs,
                      has_duration |-> TRUE, duration |-> d]
       \/ \E d \in 0..MaxDuration :
              call = [op |-> "identify_training_segments",
                      has_voice_segments |-> FALSE, voice_segments |-> <<>>,
                      has_duration |-> TRUE, duration |-> d]
       \/ call = [op |-> "identify_training_segments",
                  has_voice_segments |-> FALSE, voice_segments |-> <<>>,
                  has_duration |-> FALSE, duration |-> 0]
    /\ ret = [op |-> "none"]

IdentifyTrainingSegmentsCall ==
    /\ call.op = "identify_training_segments"
    /\ ret.op = "none"
    /\ ret' = IdentifyTrainingSegments(call)
    /\ UNCHANGED <<inputs, pipeline, fleet, call>>

ClipsNext == IdentifyTrainingSegmentsCall

SpecClips == ClipsInit /\ [][ClipsNext]_vars

\* ------------------------------------- two runs for one persona id
\* Two train_persona calls with the same persona_id that overlap: each runs
\* on an event loop of its own thread (asyncio.run in two threads), so their
\* statements interleave.  (On the application's single loop the calls run
\* one after the other, see above.)  A TrainingProgress is an object: each
\* run updates the one it created through its local name progress, and
\* active_trainings[persona_id] refers to the object registered last.  The
\* object created by run r is jobs[r].progress and the registry entry names
\* the run whose object it holds; started lists the runs in the order of
\* their registration.  The jobs have audio files only and no callback.
Runs == {"r1", "r2"}

NotCreated == [current_step |-> <<"none", 0, 0>>, progress_percentage |-> 0,
               status |-> "none", details |-> Details("none", 0, "")]

\* the object active_trainings[persona_id] refers to
Registry(persona_id) == jobs[active_trainings[persona_id].object].progress

SameInit ==
    /\ NoInputs
    /\ PipelineIdle
    /\ AnalyzerIdle
    /\ requests \in [Runs -> [stage_fails : BOOLEAN]]
    /\ jobs = [r \in Runs |-> [pc |-> "start", progress |-> NotCreated,
                               result |-> "pending"]]
    /\ sources = <<>>
    /\ loop = "idle"
    /\ written = {}

\* the variables the two runs leave alone
same == <<inputs, analyzer, pc, current_step, total_steps, exc, result, disk, callbacks,
          finished, cancel_result, cancel_mark, requests, sources, loop, written>>

\* lines 63-72
RunStart(r) ==
    /\ jobs[r].pc = "start"
    /\ jobs' = [jobs EXCEPT ![r] =
           [@ EXCEPT !.pc = "begin_audio",
                     !.progress =
                         [current_step |-> <<"Initializing", 0, 0>>,
                          progress_percentage |-> 0,
                          status |-> "running",
                          details |-> Details("Preparing training pipeline", 0, "")]]]
    /\ active_trainings' = (PersonaId :> [object |-> r]) @@ active_trainings
    /\ started' = Append(started, r)
    /\ UNCHANGED same

\* lines 84-91: the updates go to the run's own object
RunBeginAudio(r) ==
    /\ jobs[r].pc = "begin_audio"
    /\ jobs' = [jobs EXCEPT ![r] =
           [@ EXCEPT !.pc = "run_audio",
                     !.progress =
                         [@ EXCEPT !.current_step = <<"Processing audio files", 1, 1>>,
                                   !.progress_percentage = Pct(1, 1),
                                   !.details = Details("Processing audio files", 1, "")]]]
    /\ UNCHANGED <<same, active_trainings, started>>

\* lines 93-97: _process_audio_files returns, or raises
RunAudioStage(r) ==
    /\ jobs[r].pc = "run_audio"
    /\ jobs' = [jobs EXCEPT ![r] =
           [@ EXCEPT !.pc = IF requests[r].stage_fails THEN "except"
                            ELSE "begin_synthesis"]]
    /\ UNCHANGED <<same, active_trainings, started>>

\* lines 147-155
RunSynthesize(r) ==
    /\ jobs[r].pc = "begin_synthesis"
    /\ jobs' = [jobs EXCEPT ![r] =
           [@ EXCEPT !.pc = "complete",
                     !.progress =
                         [@ EXCEPT !.current_step = <<"Synthesizing persona model", 0, 0>>,
                                   !.progress_percentage = SynthesisProgress,
                                   !.details = Details("Creating unified persona model", 0, "")]]]
    /\ UNCHANGED <<same, active_trainings, started>>

\* lines 157-167
RunComplete(r) ==
    /\ jobs[r].pc = "complete"
    /\ jobs' = [jobs EXCEPT ![r] =
           [@ EXCEPT !.pc = "done", !.result = "true",
                     !.progress =
                         [@ EXCEPT !.current_step = <<"Training completed", 0, 0>>,
                                   !.progress_percentage = CompletedProgress,
                                   !.status = "completed",
                                   !.details = Details("Persona training successful", 0, "")]]]
    /\ UNCHANGED <<same, active_trainings, started>>

\* lines 169-178: the except block writes to the object it finds in
\* active_trainings under persona_id
RunExcept(r) ==
    /\ jobs[r].pc = "except"
    /\ LET o == active_trainings[PersonaId].object
           failed == [jobs EXCEPT ![o] =
               [@ EXCEPT !.progress =
                   [@ EXCEPT !.status = "failed",
                             !.details = Details("Training failed: ", 0, "stage raised")]]]
       IN jobs' = [failed EXCEPT ![r] = [@ EXCEPT !.pc = "done", !.result = "false"]]
    /\ UNCHANGED <<same, active_trainings, started>>

SameNext ==
    \/ \E r \in Runs : RunStart(r)
    \/ \E r \in Runs : RunBeginAudio(r)
    \/ \E r \in Runs : RunAudioStage(r)
    \/ \E r \in Runs : RunSynthesize(r)
    \/ \E r \in Runs : RunComplete(r)
    \/ \E r \in Runs : RunExcept(r)

SpecSame == SameInit /\ [][SameNext]_vars

\* ------------------------------------- analyze_audio and analyze_video
\* The environment of one call: whether the file exists, which optional
\* libraries were imported, whether loading raises, which group extractors
\* fail (each catches its exception and returns {"error": ...}), and the
\* progress callback (absent, returning, or raising on every call).  A
\* populated group carries fixed good values; progress is the sequence of
\* values the callback was called with.  The progress calls made from
\* inside _analyze_visual_features are left out: an exception there is
\* caught by that extractor.
AudioGroups ==
    {"basic_info", "spectral_features", "prosodic_features",
     "voice_characteristics", "emotional_indicators", "voice_quality"}

VideoGroups == {"basic_info", "audio_features", "visual_features"}

AllGroups == AudioGroups \cup VideoGroups

NoGroups == [g \in AllGroups |-> "none"]

NoSuitability == Suitability("none", <<>>, 0, "none")

\* the analysis raised out of the analyzer, or returned {"error": ...}
Failed(op, progress, raised) ==
    [op |-> op, raised |-> raised, top_error |-> ~raised, groups |-> NoGroups,
     movement_analysis |-> "none", training_suitability |-> NoSuitability,
     progress |-> progress]

\* the except block of analyze_audio / analyze_video: the callback, if any,
\* is called with -1; an exception it raises leaves the analyzer
ExceptBlock(c, op, progress) ==
    IF c.has_callback
    THEN Failed(op, Append(progress, -1), c.callback_raises)
    ELSE Failed(op, progress, FALSE)

\* AudioAnalyzer.analyze_audio, lines 44-133
AnalyzeAudio(c) ==
    IF ~c.LIBROSA_AVAILABLE THEN Failed("analyze_audio", <<>>, FALSE)   \* line 50
    ELSE IF ~c.exists THEN ExceptBlock(c, "analyze_audio", <<>>)            \* line 53
    ELSE IF c.has_callback /\ c.callback_raises
         THEN ExceptBlock(c, "analyze_audio", <<10>>)                       \* line 69
    ELSE IF c.load_raises
         THEN ExceptBlock(c, "analyze_audio", IF c.has_callback THEN <<10>> ELSE <<>>)
    ELSE LET groups == [g \in AllGroups |->
                           IF g \notin AudioGroups THEN "none"
                           ELSE IF g \in c.failing THEN "error" ELSE "ok"]
             results ==
                 [op |-> "audio",
                  basic_info |-> [has |-> groups["basic_info"] = "ok",
                                  duration |-> IF groups["basic_info"] = "ok" THEN 45 ELSE 0],
                  voice_quality |-> IF groups["voice_quality"] = "ok"
                                    THEN AssessVoiceQuality(25, 40, 100, 0)
                                    ELSE NoVoiceQuality,
                  voice_characteristics |->
                      [has |-> groups["voice_characteristics"] = "ok",
                       harmonics_to_noise_ratio |->
                           IF groups["voice_characteristics"] = "ok" THEN 20 ELSE 0]]
         IN [op |-> "analyze_audio", raised |-> FALSE, top_error |-> FALSE,
             groups |-> groups,
             movement_analysis |-> "none",
             training_suitability |-> AudioSuitability(results),
             progress |-> IF c.has_callback
                          THEN <<10, 20, 35, 50, 65, 80, 90, 95, 100>> ELSE <<>>]

\* VideoAnalyzer.analyze_video, lines 41-106
AnalyzeVideo(c) ==
    IF ~c.exists THEN ExceptBlock(c, "analyze_video", <<>>)                 \* line 47
    ELSE IF c.has_callback /\ c.callback_raises
         THEN ExceptBlock(c, "analyze_video", <<10>>)                       \* line 62
    ELSE LET audio_path == c.AUDIO_PROCESSING_AVAILABLE /\ c.audio_track  \* _extract_audio
             groups == [g \in AllGroups |->
                 CASE g = "basic_info" ->
                          IF g \in c.failing THEN "error" ELSE "ok"
                   [] g = "audio_features" ->
                          IF ~audio_path THEN "empty"                   \* line 72: left {}
                          ELSE IF g \in c.failing THEN "error" ELSE "ok"
                   [] g = "visual_features" ->
                          IF ~c.MEDIAPIPE_AVAILABLE \/ g \in c.failing THEN "error"
                          ELSE "ok"
                   [] OTHER -> "none"]
             movement == IF groups["visual_features"] # "ok" THEN "none"
                         ELSE IF "movement_analysis" \in c.failing THEN "error" ELSE "ok"
             results ==
                 [op |-> "video",
                  basic_info |-> [has |-> groups["basic_info"] = "ok",
                                  duration |-> IF groups["basic_info"] = "ok" THEN 45 ELSE 0],
                  audio_features |->
                      IF groups["audio_features"] = "ok"
                      THEN [has |-> TRUE, mean_energy |-> 10, voice_activity_ratio |-> 90]
                      ELSE [has |-> FALSE, mean_energy |-> 0, voice_activity_ratio |-> 0],
                  visual_features |->
                      IF groups["visual_features"] = "ok"
                      THEN [has |-> TRUE, face_detection_rate |-> 90,
                            movement_analysis |->
                                [has |-> movement = "ok",
                                 average_movement |-> IF movement = "ok" THEN 50 ELSE 0]]
                      ELSE [has |-> FALSE, face_detection_rate |-> 0,
                            movement_analysis |-> [has |-> FALSE, average_movement |-> 0]]]
         IN [op |-> "analyze_video", raised |-> FALSE, top_error |-> FALSE,
             groups |-> groups,
             movement_analysis |-> movement,
             training_suitability |-> VideoSuitability(results),
             progress |-> IF c.has_callback
                          THEN <<10, 20, 40, 80, 90, 100>> ELSE <<>>]

AnalyzeInit ==
    /\ NoInputs
    /\ PipelineIdle
    /\ FleetIdle
    /\ \E exists \in BOOLEAN, cb \in {"none", "returns", "raises"} :
          \/ \E librosa \in BOOLEAN, load_raises \in BOOLEAN :
             \E failing \in SUBSET AudioGroups :
                 call = [op |-> "analyze_audio", exists |-> exists,
                         has_callback |-> cb # "none", callback_raises |-> cb = "raises",
                         failing |-> failing, load_raises |-> load_raises,
                         LIBROSA_AVAILABLE |-> librosa,
                         AUDIO_PROCESSING_AVAILABLE |-> librosa,
                         MEDIAPIPE_AVAILABLE |-> FALSE, audio_track |-> FALSE]
          \/ \E audio \in BOOLEAN, track \in BOOLEAN, mediapipe \in BOOLEAN :
             \E failing \in SUBSET (VideoGroups \cup {"movement_analysis"}) :
                 call = [op |-> "analyze_video", exists |-> exists,
                         has_callback |-> cb # "none", callback_raises |-> cb = "raises",
                         failing |-> failing, load_raises |-> FALSE,
                         LIBROSA_AVAILABLE |-> audio,
                         AUDIO_PROCESSING_AVAILABLE |-> audio,
                         MEDIAPIPE_AVAILABLE |-> mediapipe, audio_track |-> track]
    /\ ret = [op |-> "none"]

AnalyzeAudioCall ==
    /\ call.op = "analyze_audio"
    /\ ret.op = "none"
    /\ ret' = AnalyzeAudio(call)
    /\ UNCHANGED <<inputs, pipeline, fleet, call>>

AnalyzeVideoCall ==
    /\ call.op = "analyze_video"
    /\ ret.op = "none"
    /\ ret' = AnalyzeVideo(call)
    /\ UNCHANGED <<inputs, pipeline, fleet, call>>

AnalyzeNext ==
    \/ AnalyzeAudioCall
    \/ AnalyzeVideoCall

SpecAnalyze == AnalyzeInit /\ [][AnalyzeNext]_vars

\* ---------------------------------------------------------------- claims
Terminal == {"completed", "failed", "cancelled"}

ModalityNames == {Modalities[i] : i \in 1..Len(Modalities)}

\* the artifacts a step writes under the persona directory
StageFiles(step) ==
    CASE step = "audio" -> {"audio/audio_analysis.json", "advanced_voice_features.json"}
      [] step = "video" -> {"video/video_analysis.json", "advanced_visual_features.json"}
      [] step = "text" -> {"text/processed", "personality_features.json"}
      [] step = "images" -> {"images/processed"}
      [] step = "synthesis" -> {"persona_model.json"}

\* the first cancel found the job running between two steps, N >= 1 stages done
CancelledBetweenStages ==
    /\ cancel_mark.made
    /\ cancel_mark.pc[1] = "begin"
    /\ cancel_mark.finished >= 1

\* the first cancel found the job running inside a modality stage
CancelledInFlight ==
    /\ cancel_mark.made
    /\ cancel_mark.pc[1] = "run"
    /\ cancel_mark.pc[2] \in ModalityNames

\* no stage and no callback has raised so far in the run
NothingRaised == exc = ""

\* C1: when cancel_training returned true for a running job after stage N had
\* finished and before the next step began, the run (in which nothing raises)
\* ends with status cancelled and only the artifacts of stages 1..N are on disk.
C1_CancelBetweenStagesEndsCancelled ==
    (CancelledBetweenStages /\ NothingRaised /\ pc = <<"done">>) =>
        /\ Status = "cancelled"
        /\ \A f \in FileNames :
              Exists(f) => \E k \in 1..cancel_mark.finished : f \in StageFiles(finished[k])

\* C2: after a cancel that found a modality stage in flight, no further step
\* (modality stage or synthesis) is begun in that run.
C2_NoStepBeginsAfterCancelInFlight ==
    CancelledInFlight => Len(started) = cancel_mark.started

\* C3: a terminal status (completed, failed, cancelled) is never replaced by
\* another status, by train_persona or by cancel_training.
C3_TerminalStatusIsFinal ==
    [][(Status \in Terminal) => (Status' = Status)]_vars

\* progress_percentage values handed to the callback, in delivery order
Delivered == [i \in 1..Len(callbacks) |-> callbacks[i].progress_percentage]

NonDecreasing(s) == \A i \in 1..Len(s) : \A j \in i..Len(s) : s[i] <= s[j]

\* C4: the progress_percentage stored in the job never decreases from one step
\* to the next, and the values delivered to the callback are non-decreasing.
C4_ProgressNeverDecreases ==
    [][/\ (Registered => Job'.progress_percentage >= Job.progress_percentage)
       /\ NonDecreasing(Delivered')]_vars

\* C5: a callback carrying a terminal status (completed or failed) is the last
\* callback of the run.
C5_NothingFollowsTerminalCallback ==
    \A i \in 1..Len(callbacks) :
        callbacks[i].status \in {"completed", "failed"} => i = Len(callbacks)

Steps == ModalityNames \cup {"synthesis"}

\* the exception being handled was raised by a modality stage or by synthesis
StageRaised == \E m \in Steps : exc = StageMsg(m)

FailedStep == CHOOSE m \in Steps : exc = StageMsg(m)

\* C6: when a modality stage or the synthesis step raises, the status becomes
\* failed with details carrying the exception's message, train_persona returns
\* false, no later step is started and no persona_model.json is written.
C6_StageFailureIsFatal ==
    /\ [][(pc = <<"except">> /\ StageRaised /\ pc' = <<"except_notify">>) =>
            (Status' = "failed" /\ Job'.details.msg = exc)]_vars
    /\ []((pc = <<"done">> /\ StageRaised) =>
            /\ result = "false"
            /\ started[Len(started)] = FailedStep
            /\ ~Exists("persona_model.json"))

\* the records are those of exactly the files analysed without error, in
\* input order
RecordsOfAnalysedFiles(records, files) ==
    /\ \A i \in 1..Len(files) :
          (files[i].kind = "record") <=>
              (\E k \in 1..Len(records) :
                  records[k] = [path |-> i, overall_score |-> files[i].overall_score])
    /\ \A k \in 1..Len(records) : records[k].path \in 1..Len(files)
    /\ \A k \in 1..Len(records) : \A l \in (k + 1)..Len(records) :
          records[k].path < records[l].path

\* the paths are those of exactly the files with this outcome, in input order
PathsOfFilesWith(paths, files, outcome) ==
    /\ \A i \in 1..Len(files) :
          (files[i] = outcome) <=> (\E k \in 1..Len(paths) : paths[k] = i)
    /\ \A k \in 1..Len(paths) : \A l \in (k + 1)..Len(paths) : paths[k] < paths[l]

Ran(step) == \E k \in 1..Len(finished) : finished[k] = step

Skipped(outcome) == outcome.kind \in {"missing", "error", "raises"}

SectionModality ==
    [voice_model |-> "audio", visual_model |-> "video", personality_model |-> "text"]

Sections == DOMAIN SectionModality

\* the modality had at least one suitable file
HadSuitable(m) ==
    CASE m = "audio" ->
            \E i \in 1..Len(training_data.audio) :
                /\ training_data.audio[i].kind = "record"
                /\ training_data.audio[i].overall_score >= AudioAcceptanceBar
      [] m = "video" ->
            /\ VIDEO_PROCESSING_AVAILABLE
            /\ \E i \in 1..Len(training_data.video) :
                /\ training_data.video[i].kind = "record"
                /\ training_data.video[i].overall_score >= VideoAcceptanceBar
      [] m = "text" ->
            \E i \in 1..Len(training_data.text) : training_data.text[i] = "content"

PersonaModel == disk["persona_model.json"].data

\* C8: the written PersonaModel has a section only if that section's modality
\* had at least one suitable file; otherwise the section is absent (not an
\* empty placeholder).
C8_SectionOnlyForSuitableModality ==
    Exists("persona_model.json") =>
        \A sec \in Sections :
            sec \in DOMAIN PersonaModel => HadSuitable(SectionModality[sec])

\* the feature-summary artifact each stage writes
SummaryFile ==
    [voice_model |-> "advanced_voice_features.json",
     visual_model |-> "advanced_visual_features.json",
     personality_model |-> "personality_features.json"]

\* C9: whenever a stage's feature-summary artifact is on disk, the section of
\* the synthesized PersonaModel for that modality holds the artifact's content.
C9_SynthesisReadsBackArtifacts ==
    Exists("persona_model.json") =>
        \A sec \in Sections :
            Exists(SummaryFile[sec]) => PersonaModel[sec] = disk[SummaryFile[sec]].data

\* C10: an audio (video) stage none of whose files is suitable writes no
\* advanced_voice_features.json (advanced_visual_features.json).
C10_NoArtifactWithoutSuitableFile ==
    /\ (Ran("audio") /\ ~HadSuitable("audio")) => ~Exists("advanced_voice_features.json")
    /\ (Ran("video") /\ ~HadSuitable("video")) => ~Exists("advanced_visual_features.json")

\* C11: the feature summary of a modality is computed only over records whose
\* overall_score reaches that modality's acceptance bar.
C11_SummaryOnlyOverSuitableRecords ==
    /\ Exists("advanced_voice_features.json") =>
          \A k \in 1..Len(disk["advanced_voice_features.json"].data.records) :
              disk["advanced_voice_features.json"].data.records[k].overall_score
                  >= AudioAcceptanceBar
    /\ Exists("advanced_visual_features.json") =>
          \A k \in 1..Len(disk["advanced_visual_features.json"].data.records) :
              disk["advanced_visual_features.json"].data.records[k].overall_score
                  >= VideoAcceptanceBar

VerdictTier(verdict) ==
    CASE verdict \in {"Excellent for voice training", "Excellent for training"} -> "Excellent"
      [] verdict \in {"Good for voice training", "Good for training"} -> "Good"
      [] verdict \in {"Acceptable for voice training", "Acceptable for training"} -> "Acceptable"
      [] verdict \in {"Poor quality - recommend re-recording",
                      "Poor quality - consider re-recording"} -> "Poor"
      [] OTHER -> "none"

Scored == ret.op \in {"audio", "video"}

\* C13: every record a scorer produces has overall_score in [0,100] and the
\* verdict tier fixed by the thresholds: >= 80 Excellent, >= 60 Good,
\* >= 40 Acceptable, otherwise Poor.
C13_ScoreInRangeAndVerdictByThreshold ==
    Scored =>
        /\ ret.overall_score \in 0..100
        /\ ret.score <= ret.max_score
        /\ VerdictTier(ret.verdict) =
              IF ret.overall_score >= 80 THEN "Excellent"
              ELSE IF ret.overall_score >= 60 THEN "Good"
              ELSE IF ret.overall_score >= 40 THEN "Acceptable"
              ELSE "Poor"

\* an audio record scored between 70 and 80 with a signal group absent
C13_Witness ==
    /\ ret.op = "audio"
    /\ ~call.voice_characteristics.has
    /\ ret.overall_score >= 70
    /\ ret.overall_score < 80
    /\ ret.verdict = "Good for voice training"

RECURSIVE SumOver(_, _, _)
SumOver(criteria, i, field) ==
    IF i > Len(criteria) THEN 0
    ELSE (IF criteria[i].signal THEN criteria[i][field] ELSE 0)
         + SumOver(criteria, i + 1, field)

\* C14: max_score is the sum of the maxima of exactly the criteria whose
\* signal is present and bucketed; a criterion whose signal is absent or an
\* error value adds nothing to score and nothing to max_score.
C14_OnlyAvailableCriteriaCount ==
    Scored =>
        /\ ret.max_score = SumOver(ret.criteria, 1, "max")
        /\ ret.score = SumOver(ret.criteria, 1, "points")

\* the record is the one of Scenario A: 45 s, SNR 25 dB, no clipping
ScenarioA(r) ==
    /\ r.basic_info.has
    /\ r.basic_info.duration = 45
    /\ r.voice_quality.has
    /\ r.voice_quality.snr_db = 25
    /\ r.voice_quality.clipping_ratio = 0

\* C15 as stated: every Scenario A record scores at least 80 and is
\* "Excellent for voice training", whatever the remaining signals are.
C15_ScenarioAAlwaysExcellent ==
    (ret.op = "audio" /\ ScenarioA(call)) =>
        /\ ret.overall_score >= 80
        /\ ret.verdict = "Excellent for voice training"

\* overall voice quality below 0.6 together with an HNR below 5 dB
WeakRemainingSignals(r) ==
    /\ r.voice_quality.overall_quality_score < 14400
    /\ r.voice_characteristics.has
    /\ r.voice_characteristics.harmonics_to_noise_ratio < 5

\* C15: every Scenario A record scores at least 75; it scores at least 80
\* and is "Excellent for voice training" unless its overall voice quality is
\* below 0.6 and its HNR below 5 dB, and then it scores exactly 75 and is
\* "Good for voice training".
C15_ScenarioAGoodOrExcellent ==
    (ret.op = "audio" /\ ScenarioA(call)) =>
        /\ ret.overall_score >= 75
        /\ IF WeakRemainingSignals(call)
           THEN /\ ret.overall_score = 75
                /\ ret.verdict = "Good for voice training"
           ELSE /\ ret.overall_score >= 80
                /\ ret.verdict = "Excellent for voice training"

C15_Witness ==
    /\ ret.op = "audio"
    /\ ScenarioA(call)
    /\ WeakRemainingSignals(call)
    /\ ret.verdict = "Good for voice training"

\* indices i.., in input order, of the files that exist, were analysed
\* without error and score at least 40
RECURSIVE ExistAnalysedAndScore40(_, _)
ExistAnalysedAndScore40(files, i) ==
    IF i > Len(files) THEN <<>>
    ELSE IF /\ files[i].kind = "record"
            /\ AudioSuitability(files[i].analysis).score * 100
                   >= 40 * AudioSuitability(files[i].analysis).max_score
            /\ AudioSuitability(files[i].analysis).max_score > 0
         THEN <<i>> \o ExistAnalysedAndScore40(files, i + 1)
         ELSE ExistAnalysedAndScore40(files, i + 1)

ThreeSeconds(file) ==
    /\ file.kind = "record"
    /\ file.analysis.basic_info.has
    /\ file.analysis.basic_info.duration = 3

\* C12: the persisted suitable_files is exactly the sub-sequence, in input
\* order, of the files that exist, were analysed without error and score at
\* least 40; a 3-second file carries the duration-penalty issue and is not in
\* suitable_files when it scores below 40.
C12_SuitableFilesAreTheSubsequence ==
    ret.op = "process_audio" =>
        /\ ret.suitable_files = ExistAnalysedAndScore40(call.audio_files, 1)
        /\ \A k \in 1..Len(ret.analyses) :
              ThreeSeconds(call.audio_files[ret.analyses[k].path]) =>
                  /\ "Audio too short (minimum 5 seconds)"
                         \in ret.analyses[k].training_suitability.issues
                  /\ ret.analyses[k].training_suitability.overall_score < 40 =>
                         \A j \in 1..Len(ret.suitable_files) :
                             ret.suitable_files[j] # ret.analyses[k].path

\* two 3-second files were analysed: the first scores below 40 and is left
\* out, the second scores exactly 40 and is kept
C12_Witness ==
    /\ ret.op = "process_audio"
    /\ Len(ret.analyses) = 2
    /\ ThreeSeconds(call.audio_files[1])
    /\ ThreeSeconds(call.audio_files[2])
    /\ ret.analyses[1].training_suitability.overall_score < 40
    /\ ret.analyses[2].training_suitability.overall_score = 40
    /\ ret.suitable_files = <<2>>

Aggregated == ret.op \in {"voice", "visual"} /\ ret.written

\* the values of a sub-field, of the records that have it, in input order
RECURSIVE ValuesPresent(_, _, _)
ValuesPresent(analyses, group, field) ==
    IF analyses = <<>> THEN <<>>
    ELSE (IF Head(analyses)[group].has THEN <<Head(analyses)[group][field]>> ELSE <<>>)
         \o ValuesPresent(Tail(analyses), group, field)

\* C16: every aggregate of the summary is taken over exactly the records
\* that have its sub-field: a record without the sub-field contributes no
\* default value, and a record with it always contributes.
C16_MissingSubFieldOnlyLeavesItsAggregate ==
    /\ (ret.op = "voice" /\ ret.written) =>
          LET pitch == ValuesPresent(call.analyses, "spectral_features",
                                     "spectral_centroid_mean")
              quality == ValuesPresent(call.analyses, "voice_quality",
                                       "overall_quality_score")
          IN /\ pitch # <<>> =>
                   /\ ret.voice_characteristics.average_pitch = NpMean(pitch)
                   /\ ret.voice_characteristics.pitch_variance = NpStd(pitch)
             /\ quality # <<>> =>
                   /\ ret.quality_metrics.average_quality = NpMean(quality)
                   /\ ret.quality_metrics.minimum_quality = NpMin(quality)
    /\ (ret.op = "visual" /\ ret.written) =>
          LET rates == ValuesPresent(call.analyses, "visual_features",
                                     "face_detection_rate")
          IN rates # <<>> =>
                 ret.visual_characteristics.average_visibility = NpMean(rates)

Orderings(n) ==
    {p \in [1..n -> 1..n] : \A i, j \in 1..n : p[i] = p[j] => i = j}

Aggregate(op, analyses) ==
    IF op = "voice" THEN ExtractAdvancedVoiceFeatures(analyses)
    ELSE ExtractAdvancedVisualFeatures(analyses)

\* C17: the summary of every permutation of the input list is the summary
\* of the list.
C17_AggregationIsOrderIndependent ==
    ret.op \in {"voice", "visual"} =>
        \A p \in Orderings(Len(call.analyses)) :
            Aggregate(call.op, [i \in 1..Len(call.analyses) |-> call.analyses[p[i]]]) = ret

\* a list of three records, not all alike, with a failed group among them
C17_Witness ==
    /\ ret.op = "voice"
    /\ ret.written
    /\ Len(call.analyses) = 3
    /\ call.analyses[1] # call.analyses[2]
    /\ call.analyses[2] # call.analyses[3]
    /\ ~call.analyses[1].voice_quality.has
    /\ ret.quality_metrics.minimum_quality # ret.quality_metrics.maximum_quality

RemoveAt(xs, i) == [k \in 1..(Len(xs) - 1) |-> IF k < i THEN xs[k] ELSE xs[k + 1]]

FullyPopulated(analysis) ==
    /\ analysis.spectral_features.has
    /\ analysis.voice_quality.has

\* C18: for an input of at least two records, the summary of the input
\* without one of its fully-populated records differs from the summary of
\* the input.
C18_RemovingARecordChangesTheSummary ==
    (ret.op = "voice" /\ Len(call.analyses) >= 2) =>
        \A i \in 1..Len(call.analyses) :
            FullyPopulated(call.analyses[i]) =>
                ExtractAdvancedVoiceFeatures(RemoveAt(call.analyses, i)) # ret

\* the input holds the same fully-populated record twice and nothing else
C18_Witness ==
    /\ ret.op = "voice"
    /\ ret.written
    /\ Len(call.analyses) = 2
    /\ call.analyses[1] = call.analyses[2]
    /\ FullyPopulated(call.analyses[1])
    /\ ExtractAdvancedVoiceFeatures(<<call.analyses[1]>>).quality_metrics
           = ret.quality_metrics

WritesUnderOwnDirectory ==
    \A w \in written : w.root = "training" /\ w.owner = w.by

\* a step of one job leaves the other job's registry entry as it was
OtherEntryUntouched ==
    \A p \in Personas :
        (loop # p /\ loop' # p) =>
            /\ (p \in DOMAIN active_trainings) = (p \in DOMAIN active_trainings')
            /\ p \in DOMAIN active_trainings => active_trainings'[p] = active_trainings[p]

\* once both jobs have returned, every job whose stage did not fail is completed
BothCompleted ==
    (\A p \in Personas : jobs[p].pc = "done") =>
        \A p \in Personas :
            ~requests[p].stage_fails => active_trainings[p].status = "completed"

\* no file has been written by both jobs
NoFileWrittenByBoth ==
    \A w1, w2 \in written :
        (w1.root = w2.root /\ w1.owner = w2.owner /\ w1.name = w2.name) => w1.by = w2.by

\* C20: two jobs for different persona ids never cross-write: each writes
\* only under its own <root>/<personaId>/ directory, changes only its own
\* registry entry, and both end completed unless a stage failed.
C20_JobsNeverCrossWrite ==
    /\ [](jobs # <<>> => NoFileWrittenByBoth /\ WritesUnderOwnDirectory /\ BothCompleted)
    /\ [][jobs # <<>> => OtherEntryUntouched]_vars

Analyzed == ret.op \in {"analyze_audio", "analyze_video"}

\* the call met a failure: missing file, unavailable analysis library,
\* exception in loading or in a progress call
AnalysisFailure ==
    \/ ~call.exists
    \/ call.op = "analyze_audio" /\ (~call.LIBROSA_AVAILABLE \/ call.load_raises)
    \/ call.has_callback /\ call.callback_raises

TimesCalledWith(progress, v) ==
    Cardinality({i \in 1..Len(progress) : progress[i] = v})

\* C21: the analyzers never raise; on every failure they return a record
\* carrying error, and a supplied callback is called with -1 exactly once
\* for that failure and with nothing after it.
C21_AnalyzersFailSoftly ==
    Analyzed =>
        /\ ~ret.raised
        /\ AnalysisFailure =>
              /\ ret.top_error
              /\ call.has_callback =>
                    /\ TimesCalledWith(ret.progress, -1) = 1
                    /\ ret.progress[Len(ret.progress)] = -1

\* the call met no failure of its own: only capabilities or extractors did
OnlyGroupTrouble ==
    /\ call.exists
    /\ ~call.load_raises
    /\ ~(call.has_callback /\ call.callback_raises)

\* the capability of group g is unavailable or its extractor failed
GroupTrouble(g) ==
    \/ g \in call.failing
    \/ call.op = "analyze_audio" /\ ~call.LIBROSA_AVAILABLE
    \/ call.op = "analyze_video" /\ g = "audio_features"
          /\ (~call.AUDIO_PROCESSING_AVAILABLE \/ ~call.audio_track)
    \/ call.op = "analyze_video" /\ g = "visual_features" /\ ~call.MEDIAPIPE_AVAILABLE

GroupsOf(op) == IF op = "analyze_audio" THEN AudioGroups ELSE VideoGroups

\* C22: when a capability is unavailable or an extractor fails, only that
\* group of the record is an error value: the other groups are computed,
\* the record has no top-level error, and its suitability is scored from
\* the remaining groups.
C22_OnlyTheTroubledGroupIsAnError ==
    (Analyzed /\ OnlyGroupTrouble) =>
        /\ ~ret.top_error
        /\ \A g \in GroupsOf(call.op) :
               ret.groups[g] = IF GroupTrouble(g) THEN "error" ELSE "ok"
        /\ ret.training_suitability.max_score
               = SumOver(ret.training_suitability.criteria, 1, "max")

\* get_training_progress returns None exactly when no run was started
NullExactlyBeforeTheRun ==
    (GetTrainingProgress(PersonaId) = None) <=> (pc = <<"start">>)

\* a job that reached a terminal status is still there with that status
TerminalJobStays ==
    (Status \in Terminal) => (GetTrainingProgress(PersonaId)' # None /\ Status' = Status)

\* a registered job is never removed
NeverRemoved == Registered => Registered'

\* cancel_training on an id without a job returns false and changes no entry
CancelWithoutJob ==
    (~Registered /\ cancel_result' # cancel_result) =>
        (cancel_result' = "false" /\ active_trainings' = active_trainings)

\* C23: get_training_progress(id) is None exactly when no run was ever
\* started for id; a job that reached a terminal status is never removed and
\* stays retrievable with that status; cancel_training on an id without a
\* job returns false and leaves the registry unchanged.
C23_PollByIdSemantics ==
    /\ []NullExactlyBeforeTheRun
    /\ [][TerminalJobStays /\ NeverRemoved /\ CancelWithoutJob]_vars

\* position of a step in the fixed order
StepOrder(step) ==
    CASE step = "audio" -> 1
      [] step = "video" -> 2
      [] step = "text" -> 3
      [] step = "images" -> 4
      [] step = "synthesis" -> 5

Begun(step) == \E i \in 1..Len(started) : started[i] = step

Finished(step) == \E i \in 1..Len(finished) : finished[i] = step

\* the steps begin in the order audio, video, text, images, synthesis
StepsInFixedOrder ==
    \A i, j \in 1..Len(started) :
        i < j => StepOrder(started[i]) < StepOrder(started[j])

\* a modality without files is never processed
EmptyModalityNeverBegun ==
    \A m \in ModalityNames : training_data[m] = <<>> => ~Begun(m)

\* synthesis begins only after the stage of every modality with files finished
SynthesisAfterEveryStage ==
    Begun("synthesis") =>
        \A m \in ModalityNames : training_data[m] # <<>> => Finished(m)

\* C24: the stages are visited in the order audio, video, text, images,
\* synthesis; a modality with an empty file list is never processed; and
\* synthesis is not started before the stage of every non-empty modality
\* has finished.
C24_StagesInFixedOrder ==
    /\ StepsInFixedOrder
    /\ EmptyModalityNeverBegun
    /\ SynthesisAfterEveryStage

\* C25: when at least one file is suitable, train_voice_model is called once
\* with exactly the suitable files and voice segments are requested from
\* every suitable file; when none is, neither is called.
C25_EngineAndSegmentsForSuitableFiles ==
    ret.op = "process_audio" =>
        LET suitable == ExistAnalysedAndScore40(call.audio_files, 1)
        IN IF suitable # <<>>
           THEN /\ ret.train_voice_model = <<suitable>>
                /\ ret.extract_voice_segments = suitable
           ELSE /\ ret.train_voice_model = <<>>
                /\ ret.extract_voice_segments = <<>>

\* C26: audio extracted from video that scores at least 30 is handed to the
\* voice-cloning engine as training material; it is recorded in the video
\* stage's video_analysis.json and the stage never writes the audio stage's
\* audio_analysis.json (where suitable_files is kept).
C26_BonusAudioIsTrainedAndLoggedSeparately ==
    ret.op = "process_video" =>
        /\ \A j \in 1..Len(ret.suitable_audio) :
               /\ \E c \in 1..Len(ret.train_voice_model) :
                      \E k \in 1..Len(ret.train_voice_model[c]) :
                          ret.train_voice_model[c][k] = ret.suitable_audio[j]
               /\ \E k \in 1..Len(ret.video_analysis.extracted_audio_files) :
                      ret.video_analysis.extracted_audio_files[k] = ret.suitable_audio[j]
        /\ "audio/audio_analysis.json" \notin ret.written

\* the segments at least 5 s long among the merged neighbours
MergedThenFiltered(voice_segments) == LongEnough(MergeClose(voice_segments))

\* C27: for a record with voice-activity segments the ranges are the
\* neighbours with a gap of at most 2 s merged, then the ranges under 5 s
\* dropped; the fixed chunks are used only when that result is empty.
C27_ClipsAreMergedThenFilteredSegments ==
    (ret.op = "identify_training_segments"
        /\ call.has_voice_segments /\ call.voice_segments # <<>>) =>
        /\ MergedThenFiltered(call.voice_segments) # <<>> =>
               ret.segments = MergedThenFiltered(call.voice_segments)
        /\ ret.fallback => MergedThenFiltered(call.voice_segments) = <<>>

\* the consecutive 30 s chunks from 0 over duration half seconds, the
\* remainder after the last whole chunk kept when it is at least 10 s long
ExpectedChunks(duration) ==
    LET whole == duration \div Halves(chunk_size)
        remainder == duration - whole * Halves(chunk_size)
    IN [k \in 1..whole |-> <<(k - 1) * Halves(chunk_size), k * Halves(chunk_size)>>]
       \o (IF remainder >= Halves(min_chunk)
           THEN <<<<whole * Halves(chunk_size), duration>>>> ELSE <<>>)

\* C28: in the fallback the ranges are the consecutive 30 s chunks from 0,
\* the trailing remainder kept only if it is at least 10 s long; every range
\* is between 10 s and 30 s long, the ranges are pairwise disjoint and none
\* extends beyond the duration.
C28_FallbackChunks ==
    (ret.op = "identify_training_segments" /\ ret.fallback /\ call.has_duration) =>
        /\ ret.segments = ExpectedChunks(call.duration)
        /\ \A k \in 1..Len(ret.segments) :
               /\ ret.segments[k][2] - ret.segments[k][1] >= Halves(min_chunk)
               /\ ret.segments[k][2] - ret.segments[k][1] <= Halves(chunk_size)
               /\ ret.segments[k][1] >= 0
               /\ ret.segments[k][2] <= call.duration
        /\ \A j, k \in 1..Len(ret.segments) :
               j < k => ret.segments[j][2] <= ret.segments[k][1]

\* a video of at least 60 s whose remainder after two whole chunks is
\* dropped, none of its voice segments being usable
C28_Witness ==
    /\ ret.op = "identify_training_segments"
    /\ ret.fallback
    /\ call.has_duration
    /\ call.duration > Halves(2 * chunk_size)
    /\ Len(ret.segments) = 2

\* the registry entry is the object of the run that registered last
EntryIsOfLatestRun ==
    started # <<>> => active_trainings[PersonaId].object = started[Len(started)]

\* a step of the earlier run leaves the later run's object as it was
EarlierRunLeavesLaterAlone ==
    \A r \in Runs :
        (Len(started) = 2 /\ started[2] = r /\ jobs'[r].pc = jobs[r].pc) =>
            jobs'[r].progress = jobs[r].progress

\* C29: for two overlapping runs with the same persona id the registry entry
\* always describes the most recently started run, and no failure or other
\* update of the earlier run changes the later run's job record.
C29_EarlierRunNeverTouchesLaterRecord ==
    []EntryIsOfLatestRun /\ [][EarlierRunLeavesLaterAlone]_vars

\* the status of the job at the step in which train_persona returns
ReturnsWith(value, status) ==
    (result # value /\ result' = value) => active_trainings'[PersonaId].status = status

\* C30: train_persona returns true only with the job's status completed and
\* false only with the job's status failed.
C30_ResultAgreesWithStatus ==
    [][ReturnsWith("true", "completed") /\ ReturnsWith("false", "failed")]_vars

====
